---- MODULE Spec2Model ----
(***************************************************************************)
(* The crawl state machine of the twitterweb backend: workerHandler and    *)
(* runTick (main.go of the backend), the Firestore accessors they use      *)
(* (storage.go of the backend) and the Twitter helpers (twitter.go).       *)
(*                                                                         *)
(* One Job (RootHandle) of one owner is modelled, with its FetchedHandle   *)
(* documents, the graph blob, and two worker invocations ("t1", "t2")      *)
(* that may overlap.  Every store call and every upstream call of a tick   *)
(* is a separate step, so that overlapping ticks interleave exactly at     *)
(* the points where the code talks to the outside.  The selection of Jobs  *)
(* by workerHandler is modelled over the RootHandles of two owners (jobs,  *)
(* drv), and deleteHandleHandler on the one Job (del); the graph exporter  *)
(* is gephi.go.                                                            *)
(***************************************************************************)
EXTENDS Integers, Sequences, FiniteSets, TLC

VARIABLES
    world,      \* the upstream account data (fixed during a behaviour)
    root,       \* the stored RootHandle document, or NoJob
    fetched,    \* the stored FetchedHandle documents: TwitterID -> document
    blob,       \* the stored graph object graphs/<LoginID>/<TwitterID>, or NoBlob
    tick,       \* per worker invocation: its position and its local variables
    budget,     \* number of calls (upstream, store, blob) that may still fail
    observing,  \* whether the observer below records (fixed during a behaviour)
    msgs,       \* observer: the status messages returned by successful ticks
    fcalls,     \* observer: the cursors of the root's follower-page calls
    hydrations, \* observer: the TwitterIDs hydrated by committed transactions
    jobs,       \* the RootHandle documents of all owners, as workerHandler selects them
    drv,        \* one workerHandler invocation over jobs: its position and locals
    del,        \* one deleteHandleHandler invocation: its position and locals
    enq         \* the answer of the last enqueue request, or NoAnswer

vars == <<world, root, fetched, blob, tick, budget, observing, msgs, fcalls, hydrations,
          jobs, drv, del, enq>>

(***************************************************************************)
(* Bounds of the model.                                                    *)
(***************************************************************************)
\* Failed calls (upstream, store, blob) in one behaviour of serialized ticks.
MaxFail == 2
\* Attempts the store makes to run one transaction before it gives up.
MaxAttempts == 3
\* Returned messages that are recorded.
MaxLog == 12

(***************************************************************************)
(* Constants of the program.                                               *)
(***************************************************************************)
\* The largest friend or follower count whose IDs are attached to a child.
InlineCeiling == 5000
\* The largest number of writes put in one Firestore batch.
BatchLimit == 500
\* Twitter API error codes of a suspended and of a missing account.
CodeSuspended == 63
CodeNotFound == 50

Procs == {"t1", "t2"}

NoJob == [absent |-> TRUE]
NoBlob == [absent |-> TRUE]
NoHandle == [absent |-> TRUE]

(***************************************************************************)
(* strconv.FormatInt(n, 10) and strconv.ParseInt(s, 10, 64): a string is   *)
(* the sequence of its decimal digits.                                     *)
(***************************************************************************)
RECURSIVE FormatInt(_)
FormatInt(n) ==
    IF n < 10 THEN <<n>> ELSE Append(FormatInt(n \div 10), n % 10)

RECURSIVE ParseDigits(_, _)
ParseDigits(s, acc) ==
    IF s = <<>> THEN acc ELSE ParseDigits(Tail(s), 10 * acc + Head(s))

ParseInt(s) ==
    IF s = <<>> \/ \E i \in 1..Len(s) : s[i] \notin 0..9
    THEN [err |-> TRUE, val |-> 0]
    ELSE [err |-> FALSE, val |-> ParseDigits(s, 0)]

FormatAll(ids) == [i \in 1..Len(ids) |-> FormatInt(ids[i])]

Range(s) == {s[i] : i \in 1..Len(s)}


(***************************************************************************)
(* The upstream social-graph API.  A world fixes, for the root account and *)
(* for the accounts that can turn up as its friends or followers, what the *)
(* API answers.  friends/ids and followers/ids are paged: cursor -1 asks   *)
(* for the first page, the answer carries the next cursor, 0 when the list *)
(* is exhausted; the continuation token of page i is i.  descriptions      *)
(* gives the profile text of the accounts that have one: a text is a       *)
(* sequence of runs, each a character (its code point) and the number of   *)
(* times it is repeated.                                                   *)
(***************************************************************************)
\* two followers on one page, no friends
WorldOnePage ==
    [rootID |-> 9, followers |-> << <<1, 2>> >>, friends |-> << >>,
     descriptions |-> << >>]
\* followers on two pages (-1, then a token, then 0), one friend
WorldTwoPages ==
    [rootID |-> 9, followers |-> << <<1>>, <<2>> >>, friends |-> << <<2>> >>,
     descriptions |-> << >>]
\* friends [a,b,c] and followers [b,c,d]
WorldDedup ==
    [rootID |-> 9, followers |-> << <<2, 3, 4>> >>, friends |-> << <<1, 2, 3>> >>,
     descriptions |-> << >>]
\* an ID repeated inside one list and across the two lists
WorldRepeat ==
    [rootID |-> 9, followers |-> << <<3, 3>> >>, friends |-> << <<3>> >>,
     descriptions |-> << >>]
\* nobody
WorldNobody ==
    [rootID |-> 9, followers |-> << >>, friends |-> << >>,
     descriptions |-> << >>]

Worlds == {WorldOnePage, WorldTwoPages, WorldDedup, WorldRepeat, WorldNobody}

\* The worlds explored with overlapping worker invocations.
OverlapWorlds == {WorldTwoPages, WorldRepeat, WorldNobody}

\* GET users/show by user_id: code 0 and the profile, or an API error code.
UsersShow(id) ==
    CASE id = 1 -> [code |-> 0, ScreenName |-> "u1", FriendsCount |-> 1, FollowersCount |-> 1]
      [] id = 2 -> [code |-> 0, ScreenName |-> "u2", FriendsCount |-> 5001, FollowersCount |-> 2]
      [] id = 3 -> [code |-> CodeSuspended, ScreenName |-> "", FriendsCount |-> 0, FollowersCount |-> 0]
      [] id = 4 -> [code |-> CodeNotFound, ScreenName |-> "", FriendsCount |-> 0, FollowersCount |-> 0]
      [] id = 5 -> [code |-> 0, ScreenName |-> "u5", FriendsCount |-> InlineCeiling, FollowersCount |-> 0]
      [] id = 9 -> [code |-> 0, ScreenName |-> "root", FriendsCount |-> 3, FollowersCount |-> 3]
      [] OTHER -> [code |-> CodeNotFound, ScreenName |-> "", FriendsCount |-> 0, FollowersCount |-> 0]

\* The description in the profile of an account.
ProfileDescription(w, id) ==
    IF id \in DOMAIN w.descriptions THEN w.descriptions[id] ELSE << >>

\* The UTF-8 bytes of a character.
Utf8(c) ==
    IF c < 128 THEN <<c>>
    ELSE IF c < 2048 THEN <<192 + (c \div 64), 128 + (c % 64)>>
    ELSE <<224 + (c \div 4096), 128 + ((c \div 64) % 64), 128 + (c % 64)>>

\* A Go string is the sequence of the UTF-8 bytes of its text.
RECURSIVE GoString(_)
GoString(text) ==
    IF text = << >> THEN << >>
    ELSE LET b == Utf8(Head(text).char)
         IN  [i \in 1..(Len(b) * Head(text).n) |-> b[((i - 1) % Len(b)) + 1]]
                 \o GoString(Tail(text))

\* The pages of friend IDs and of follower IDs of an account.
FriendPages(w, id) ==
    IF id = w.rootID THEN w.friends
    ELSE CASE id = 1 -> << <<9>> >>
           [] id = 2 -> << <<9, 7>>, <<8>> >>
           [] id = 5 -> << <<9, 1>>, <<2>> >>
           [] OTHER -> << >>

FollowerPages(w, id) ==
    IF id = w.rootID THEN w.followers
    ELSE CASE id = 1 -> << <<2>> >>
           [] id = 2 -> << <<9, 7>> >>
           [] OTHER -> << >>

\* One page of a paged ID list: the IDs and next_cursor.
IDsPage(pages, cursor) ==
    LET i == IF cursor = -1 THEN 1 ELSE cursor IN
    IF i \in 1..Len(pages)
    THEN [IDs |-> pages[i], NextCursor |-> IF i < Len(pages) THEN i + 1 ELSE 0]
    ELSE [IDs |-> <<>>, NextCursor |-> 0]

(***************************************************************************)
(* Status messages.  fmt.Sprintf("Fetched %v follower IDs", n) and the     *)
(* like: the format, the number and the name printed into it.              *)
(***************************************************************************)
Msg(text, n, name) == [text |-> text, n |-> n, name |-> name]

NoStatus == Msg("", 0, "")

(***************************************************************************)
(* twitter.go                                                              *)
(***************************************************************************)
permanentErrorMessage(code) ==
    IF code = CodeSuspended THEN "SUSPENDED"
    ELSE IF code = CodeNotFound THEN "NOT FOUND"
    ELSE ""

\* getTwitterUser returning, for a suspended or deleted account, a
\* placeholder without a name.
getTwitterUserUnnamed(w, twitterID) ==
    LET p == ParseInt(twitterID)
        r == UsersShow(p.val)
    IN  IF p.err THEN [err |-> TRUE, IDStr |-> twitterID, ScreenName |-> "",
                       FriendsCount |-> 0, FollowersCount |-> 0, Description |-> << >>]
        ELSE IF r.code # 0
        THEN [err |-> permanentErrorMessage(r.code) = "", IDStr |-> twitterID,
              ScreenName |-> "",
              FriendsCount |-> 0, FollowersCount |-> 0, Description |-> << >>]
        ELSE [err |-> FALSE, IDStr |-> twitterID, ScreenName |-> r.ScreenName,
              FriendsCount |-> r.FriendsCount, FollowersCount |-> r.FollowersCount,
              Description |-> GoString(ProfileDescription(w, p.val))]

\* getTwitterUser without the transient failure of the call, which the
\* actions draw: the user of a successful lookup, or the placeholder of a
\* suspended or deleted account.
getTwitterUser(w, twitterID) ==
    LET p == ParseInt(twitterID)
        r == UsersShow(p.val)
    IN  IF p.err THEN [err |-> TRUE, IDStr |-> twitterID, ScreenName |-> "",
                       FriendsCount |-> 0, FollowersCount |-> 0, Description |-> << >>]
        ELSE IF r.code # 0
        THEN [err |-> permanentErrorMessage(r.code) = "", IDStr |-> twitterID,
              ScreenName |-> permanentErrorMessage(r.code),
              FriendsCount |-> 0, FollowersCount |-> 0, Description |-> << >>]
        ELSE [err |-> FALSE, IDStr |-> twitterID, ScreenName |-> r.ScreenName,
              FriendsCount |-> r.FriendsCount, FollowersCount |-> r.FollowersCount,
              Description |-> GoString(ProfileDescription(w, p.val))]

\* addFollowersPage returning the cursor it was given instead of next_cursor.
addFollowersPageSameCursor(w, node, cursor) ==
    LET p == ParseInt(node.TwitterID)
        followers == IDsPage(FollowerPages(w, p.val), cursor)
        addedIDs == FormatAll(followers.IDs)
    IN  [node |-> [node EXCEPT !.FollowerIDs = @ \o addedIDs],
         addedIDs |-> addedIDs, nextCursor |-> cursor]

\* addFriendsPage: the node with the page appended, the added IDs and the
\* next cursor.
addFriendsPage(w, node, cursor) ==
    LET p == ParseInt(node.TwitterID)
        friends == IDsPage(FriendPages(w, p.val), cursor)
        addedIDs == FormatAll(friends.IDs)
    IN  [node |-> [node EXCEPT !.FriendIDs = @ \o addedIDs],
         addedIDs |-> addedIDs, nextCursor |-> friends.NextCursor]

addFollowersPage(w, node, cursor) ==
    LET p == ParseInt(node.TwitterID)
        followers == IDsPage(FollowerPages(w, p.val), cursor)
        addedIDs == FormatAll(followers.IDs)
    IN  [node |-> [node EXCEPT !.FollowerIDs = @ \o addedIDs],
         addedIDs |-> addedIDs, nextCursor |-> followers.NextCursor]

(***************************************************************************)
(* storage.go                                                              *)
(***************************************************************************)
\* The zero GephiNode.
ZeroNode ==
    [TwitterID |-> <<>>, ScreenName |-> "", Relationship |-> "",
     FriendsCount |-> 0, FollowersCount |-> 0,
     FriendIDs |-> <<>>, FollowerIDs |-> <<>>, Done |-> FALSE,
     Description |-> << >>]

\* The length at which a description is cut.
DescriptionLimit == 500

\* if len(Description) > 500 { Description = Description[:500] }
TruncateDescription(description) ==
    IF Len(description) > DescriptionLimit
    THEN SubSeq(description, 1, DescriptionLimit)
    ELSE description

\* newRootHandle with the friends cursor created as exhausted.
newRootHandleFriendsExhausted(user) ==
    [Node |-> [ZeroNode EXCEPT !.TwitterID = user.IDStr,
                               !.ScreenName = user.ScreenName,
                               !.Relationship = "Root",
                               !.FollowersCount = user.FollowersCount,
                               !.FriendsCount = user.FriendsCount,
                               !.Done = FALSE,
                               !.Description = TruncateDescription(user.Description)],
     FollowersCursor |-> -1,
     FriendsCursor |-> 0,
     Status |-> Msg("Preparing to fetch", 0, ""),
     Remaining |-> -1,
     PrepareGraph |-> FALSE]

\* newRootHandle: the RootHandle created for a looked-up user.
newRootHandle(user) ==
    [Node |-> [ZeroNode EXCEPT !.TwitterID = user.IDStr,
                               !.ScreenName = user.ScreenName,
                               !.Relationship = "Root",
                               !.FollowersCount = user.FollowersCount,
                               !.FriendsCount = user.FriendsCount,
                               !.Done = FALSE,
                               !.Description = TruncateDescription(user.Description)],
     FollowersCursor |-> -1,
     FriendsCursor |-> -1,
     Status |-> Msg("Preparing to fetch", 0, ""),
     Remaining |-> -1,
     PrepareGraph |-> FALSE]

\* The FetchedHandle newFetchedHandles writes for one TwitterID.
newFetchedHandle(relationship, parentID, twitterID) ==
    [ParentID |-> parentID,
     Node |-> [ZeroNode EXCEPT !.TwitterID = twitterID, !.Relationship = relationship]]

\* newFetchedHandles committing all the writes in one batch.
NextBatchAll(ids) == ids

\* The batches newFetchedHandles commits: a batch is committed when it holds
\* BatchLimit writes, and what is left after the loop when it is not empty.
NextBatch(ids) ==
    IF Len(ids) >= BatchLimit THEN SubSeq(ids, 1, BatchLimit) ELSE ids

AfterBatch(ids) ==
    IF Len(ids) >= BatchLimit THEN SubSeq(ids, BatchLimit + 1, Len(ids)) ELSE <<>>

\* A batch of Create operations that leaves the existing documents alone.
SetFetchedHandlesKeepExisting(docs, relationship, parentID, ids) ==
    [id \in DOMAIN docs \cup Range(ids) |->
        IF id \in DOMAIN docs THEN docs[id]
        ELSE newFetchedHandle(relationship, parentID, id)]

\* The store after one committed batch of Set operations.
SetFetchedHandles(docs, relationship, parentID, ids) ==
    [id \in DOMAIN docs \cup Range(ids) |->
        IF id \in Range(ids) THEN newFetchedHandle(relationship, parentID, id)
        ELSE docs[id]]

\* hydrateHandle: the FetchedHandle inflated with the looked-up user.
hydrateHandle(twitterUser, fetchedHandle) ==
    [fetchedHandle EXCEPT !.Node.FriendsCount = twitterUser.FriendsCount,
                          !.Node.FollowersCount = twitterUser.FollowersCount,
                          !.Node.ScreenName = twitterUser.ScreenName,
                          !.Node.Done = TRUE,
                          !.Node.Description = TruncateDescription(twitterUser.Description)]

\* The documents getUnfinishedFetchHandle's query matches (Node.Done == false).
Unfinished(docs) == {id \in DOMAIN docs : ~docs[id].Node.Done}

\* The documents getDoneJobs' query matches (Node.Done == true).
DoneJobs(docs) == {id \in DOMAIN docs : docs[id].Node.Done}


(***************************************************************************)
(* gephi.go                                                                *)
(***************************************************************************)
\* The separator of fmt.Sprintf("%v %v", source, target): a character that
\* is no decimal digit.
Space == 10

\* Document IDs in the order of a Firestore query without OrderBy.
RECURSIVE LexLess(_, _)
LexLess(a, b) ==
    IF a = <<>> THEN b # <<>>
    ELSE IF b = <<>> THEN FALSE
    ELSE IF Head(a) # Head(b) THEN Head(a) < Head(b)
    ELSE LexLess(Tail(a), Tail(b))

RECURSIVE SortIDs(_)
SortIDs(S) ==
    IF S = {} THEN <<>>
    ELSE LET m == CHOOSE x \in S : \A y \in S \ {x} : LexLess(x, y)
         IN  <<m>> \o SortIDs(S \ {m})

\* getDoneJobs leaving out the first document of its query.
getDoneJobsButFirst(docs) ==
    LET all == SortIDs(DoneJobs(docs))
        ids == IF all = <<>> THEN <<>> ELSE Tail(all)
    IN  [i \in 1..Len(ids) |-> docs[ids[i]]]

\* getDoneJobs: the hydrated FetchedHandles of the Job.
getDoneJobs(docs) ==
    LET ids == SortIDs(DoneJobs(docs)) IN [i \in 1..Len(ids) |-> docs[ids[i]]]

\* The follower keys written with a separator after the target.
EdgeKeysOfFollowersPadded(validIDs, n) ==
    {n.FollowerIDs[i] \o <<Space>> \o n.TwitterID \o <<Space>> :
        i \in {j \in 1..Len(n.FollowerIDs) : n.FollowerIDs[j] \in validIDs}}

\* The keys appendEdgeSet adds for one ID list.
EdgeKeysOfFollowers(validIDs, n) ==
    {n.FollowerIDs[i] \o <<Space>> \o n.TwitterID :
        i \in {j \in 1..Len(n.FollowerIDs) : n.FollowerIDs[j] \in validIDs}}

EdgeKeysOfFriends(validIDs, n) ==
    {n.TwitterID \o <<Space>> \o n.FriendIDs[i] :
        i \in {j \in 1..Len(n.FriendIDs) : n.FriendIDs[j] \in validIDs}}

\* appendEdgeSet without the test of validIDs.
appendEdgeSetUnfiltered(edgeSet, validIDs, n) ==
    edgeSet \cup {n.FollowerIDs[i] \o <<Space>> \o n.TwitterID : i \in 1..Len(n.FollowerIDs)}
            \cup {n.TwitterID \o <<Space>> \o n.FriendIDs[i] : i \in 1..Len(n.FriendIDs)}

appendEdgeSet(edgeSet, validIDs, n) ==
    edgeSet \cup EdgeKeysOfFollowers(validIDs, n) \cup EdgeKeysOfFriends(validIDs, n)

\* strings.Split(edge, " "): the pieces between the separators.
RECURSIVE Split(_, _)
Split(s, cur) ==
    IF s = <<>> THEN <<cur>>
    ELSE IF Head(s) = Space THEN <<cur>> \o Split(Tail(s), <<>>)
    ELSE Split(Tail(s), Append(cur, Head(s)))

\* The edge record writeEdges writes for one key.
EdgeRecord(edge) ==
    LET splits == Split(edge, <<>>) IN [source |-> splits[1], target |-> splits[2]]

\* writeEdges: one edge record (source, target) per key of the map.  The
\* map is ranged over in no fixed order: the records written are kept as a
\* bag, each record with the number of times it is written.
writeEdges(edgeSet) ==
    [r \in {EdgeRecord(e) : e \in edgeSet} |->
        Cardinality({e \in edgeSet : EdgeRecord(e) = r})]

\* writeNode: the node record of one GephiNode.
writeNode(n) ==
    [id |-> n.TwitterID, label |-> n.ScreenName, type |-> n.Relationship,
     friends |-> n.FriendsCount, followers |-> n.FollowersCount]

\* The edge set after appendEdgeSet was called for each handle.
AppendAllEdges(edgeSet, validIDs, handles) ==
    edgeSet \cup UNION {appendEdgeSet({}, validIDs, h.Node) : h \in Range(handles)}

\* buildGephiFile also writing a node record for every ID that is attached
\* to a FetchedHandle and has no handle of its own.
buildGephiFileSecondDegree(rootHandle, fetchedHandles) ==
    LET m == {rootHandle.Node.TwitterID} \cup Range(rootHandle.Node.FriendIDs)
                 \cup Range(rootHandle.Node.FollowerIDs)
        e == AppendAllEdges(appendEdgeSet({}, m, rootHandle.Node), m, fetchedHandles)
        known == {rootHandle.Node.TwitterID}
                     \cup {fetchedHandles[i].Node.TwitterID : i \in 1..Len(fetchedHandles)}
        attached == UNION {Range(fetchedHandles[i].Node.FriendIDs)
                               \cup Range(fetchedHandles[i].Node.FollowerIDs) :
                           i \in 1..Len(fetchedHandles)}
        extra == SortIDs(attached \ known)
    IN  [nodes |-> <<writeNode(rootHandle.Node)>>
                     \o [i \in 1..Len(fetchedHandles) |-> writeNode(fetchedHandles[i].Node)]
                     \o [i \in 1..Len(extra) |->
                            writeNode([ZeroNode EXCEPT !.TwitterID = extra[i]])],
         edges |-> writeEdges(e)]

\* buildGephiFile: the node records in the order written and the bag of
\* the edge records.
buildGephiFile(rootHandle, fetchedHandles) ==
    LET m == {rootHandle.Node.TwitterID} \cup Range(rootHandle.Node.FriendIDs)
                 \cup Range(rootHandle.Node.FollowerIDs)
        e == AppendAllEdges(appendEdgeSet({}, m, rootHandle.Node), m, fetchedHandles)
    IN  [nodes |-> <<writeNode(rootHandle.Node)>>
                     \o [i \in 1..Len(fetchedHandles) |-> writeNode(fetchedHandles[i].Node)],
         edges |-> writeEdges(e)]

(***************************************************************************)
(* main.go: runTick and workerHandler                                      *)
(***************************************************************************)
\* The counting step: the IDs put in the map unique, friends first.
RECURSIVE AddUnique(_, _)
AddUnique(unique, ids) ==
    IF ids = <<>> THEN unique ELSE AddUnique(unique \cup {Head(ids)}, Tail(ids))

\* The counting step without the map: every entry of both lists counted.
CountAll(friendIDs, followerIDs) == Len(friendIDs) + Len(followerIDs)

CountUnique(friendIDs, followerIDs) ==
    Cardinality(AddUnique(AddUnique({}, friendIDs), followerIDs))

\* The hydration closure fetching a second page of friend IDs.
HydrationCallsTwoPages(twitterUser) ==
    <<"users/show">>
      \o (IF twitterUser.FriendsCount # 0 /\ twitterUser.FriendsCount <= InlineCeiling
          THEN <<"friends/ids", "friends/ids">> ELSE <<>>)
      \o (IF twitterUser.FollowersCount # 0 /\ twitterUser.FollowersCount <= InlineCeiling
          THEN <<"followers/ids">> ELSE <<>>)

\* The closure attaching a page only below the ceiling.
HydrationCallsBelowCeiling(twitterUser) ==
    <<"users/show">>
      \o (IF twitterUser.FriendsCount # 0 /\ twitterUser.FriendsCount < InlineCeiling
          THEN <<"friends/ids">> ELSE <<>>)
      \o (IF twitterUser.FollowersCount # 0 /\ twitterUser.FollowersCount < InlineCeiling
          THEN <<"followers/ids">> ELSE <<>>)

\* The upstream calls one run of the hydration closure makes for a user.
HydrationCalls(twitterUser) ==
    <<"users/show">>
      \o (IF twitterUser.FriendsCount # 0 /\ twitterUser.FriendsCount <= InlineCeiling
          THEN <<"friends/ids">> ELSE <<>>)
      \o (IF twitterUser.FollowersCount # 0 /\ twitterUser.FollowersCount <= InlineCeiling
          THEN <<"followers/ids">> ELSE <<>>)

\* The node of the FetchedHandle after the first page of friend IDs was
\* attached, when the closure calls for it.
WithFriendsPage(w, calls, node) ==
    IF "friends/ids" \in Range(calls) THEN addFriendsPage(w, node, -1).node ELSE node

\* The same for the first page of follower IDs.
WithFollowersPage(w, calls, node) ==
    IF "followers/ids" \in Range(calls) THEN addFollowersPage(w, node, -1).node ELSE node

\* The build branch saving the RootHandle without setting Node.Done.
BuiltRootHandleNotDone(rootHandle) ==
    [rootHandle EXCEPT !.Status = NoStatus, !.PrepareGraph = FALSE]

\* The build branch saving the RootHandle done with PrepareGraph left set.
BuiltRootHandleStillPreparing(rootHandle) ==
    [rootHandle EXCEPT !.Status = NoStatus, !.Node.Done = TRUE]

\* The RootHandle the build branch saves.
BuiltRootHandle(rootHandle) ==
    [rootHandle EXCEPT !.Status = NoStatus, !.PrepareGraph = FALSE, !.Node.Done = TRUE]

\* The closure saving the status and Remaining without setting PrepareGraph.
PreparingRootHandleFlagUnset(rootHandle) ==
    [rootHandle EXCEPT !.Status = Msg("Preparing graph", 0, ""),
                       !.Remaining = 0]

\* The RootHandle the hydration closure saves when no FetchedHandle is left.
PreparingRootHandle(rootHandle) ==
    [rootHandle EXCEPT !.PrepareGraph = TRUE,
                       !.Status = Msg("Preparing graph", 0, ""),
                       !.Remaining = 0]

\* The hydration closure saving the RootHandle without Remaining--.
HydratedRootHandleSameRemaining(rootHandle, fetchedHandle) ==
    [rootHandle EXCEPT !.Status = Msg("Fetched %v", 0, fetchedHandle.Node.ScreenName)]

\* The RootHandle the hydration closure saves after it hydrated a handle.
HydratedRootHandle(rootHandle, fetchedHandle) ==
    [rootHandle EXCEPT !.Status = Msg("Fetched %v", 0, fetchedHandle.Node.ScreenName),
                       !.Remaining = @ - 1]

\* The RootHandle the counting branch saves.
CountedRootHandle(rootHandle) ==
    LET n == CountUnique(rootHandle.Node.FriendIDs, rootHandle.Node.FollowerIDs)
    IN  [rootHandle EXCEPT !.Status = Msg("Enqueued %v handles", n, ""), !.Remaining = n]

\* What workerHandler prints for a RootHandle whose tick failed: the error
\* text s and the error of the status write ("<nil>" when it went through),
\* which is appended in both cases because the test is on err, not on tErr.
NoResponse == [s |-> NoStatus, tErr |-> ""]

ErrorResponse(s, tErr) == [s |-> s, tErr |-> tErr]

\* The local variables of a worker invocation that is not running.
IdleTick ==
    [pc |-> "idle",
     loaded |-> NoJob,        \* the RootHandle as workerHandler loaded it
     rh |-> NoJob,            \* rootHandle, as the tick changes it in memory
     side |-> "",             \* relationship of the page being saved
     pending |-> <<>>,        \* added IDs not yet committed by newFetchedHandles
     nadded |-> 0,            \* len(addedIDs)
     att |-> 0,               \* runs of the transaction closure so far
     txRoot |-> NoJob,        \* the RootHandle the transaction read
     txDoc |-> NoHandle,      \* the FetchedHandle the transaction's query read
     fh |-> NoHandle,         \* fetchedHandle, as the closure changes it
     acalls |-> <<>>,         \* upstream calls of the current run of the branch
     ncalls |-> 0,            \* upstream calls of the tick so far
     err |-> "",
     resp |-> NoResponse]     \* what workerHandler answered for the RootHandle

\* The messages the ticks returned, while they are observed (the first
\* MaxLog of them).
Log(m) == IF observing /\ Len(msgs) < MaxLog THEN Append(msgs, m) ELSE msgs

\* The invocation after a panic in the handler: net/http recovers it and
\* closes the connection, nothing more of workerHandler is run.
PanickedTick == [IdleTick EXCEPT !.resp = ErrorResponse(Msg("panic", 0, ""), "")]

CanFail == budget > 0

\* The tick returns an error to workerHandler after a failed call.
Fails(t, e) ==
    /\ CanFail
    /\ budget' = budget - 1
    /\ tick' = [tick EXCEPT ![t].pc = "failed", ![t].err = e]

\* The tick returns its status message to workerHandler.
Returns(t, m) ==
    /\ tick' = [tick EXCEPT ![t] = IdleTick]
    /\ msgs' = Log(m)

\* The answer of the enqueue handler: nothing is written after a success, a
\* failure of enqueueHandle is answered with status 500.
NoAnswer == [code |-> 0, text |-> ""]
EnqueueAnswer(err) ==
    IF err = "" THEN [code |-> 200, text |-> ""]
    ELSE [code |-> 500, text |-> "failed to load handle: " \o err]

\* enqueueHandle: the root account is looked up and its RootHandle created
\* (Create fails when the document exists).
Enqueue ==
    /\ root = NoJob
    /\ enq' = EnqueueAnswer("")
    /\ LET user == [IDStr |-> FormatInt(world.rootID),
                    ScreenName |-> UsersShow(world.rootID).ScreenName,
                    FriendsCount |-> UsersShow(world.rootID).FriendsCount,
                    FollowersCount |-> UsersShow(world.rootID).FollowersCount,
                    Description |-> GoString(ProfileDescription(world, world.rootID))]
       IN  root' = newRootHandle(user)
    /\ UNCHANGED <<del, jobs, drv, world, fetched, blob, tick, budget, observing, msgs, fcalls, hydrations>>

\* workerHandler up to the call of runTick: a not-done Job is selected and
\* loaded, and the owner's Twitter client built.  With a done Job (or none)
\* the handler answers "User done" and does nothing.
WorkerLoad(t) ==
    /\ tick[t].pc = "idle"
    /\ root # NoJob
    /\ ~root.Node.Done
    /\ \/ /\ tick' = [tick EXCEPT ![t] = [IdleTick EXCEPT !.pc = "run", !.loaded = root, !.rh = root]]
          /\ UNCHANGED budget
       \/ /\ CanFail
          /\ budget' = budget - 1
          /\ tick' = [tick EXCEPT ![t] = [IdleTick EXCEPT !.pc = "failed", !.loaded = root,
                                                          !.rh = root, !.err = "twitter error"]]
    /\ UNCHANGED <<enq, del, jobs, drv, world, root, fetched, blob, observing, msgs, fcalls, hydrations>>

\* The build branch saving the RootHandle as done before it writes the object.
TickBuildSavesFirst(t) ==
    /\ tick[t].pc = "run"
    /\ ~tick[t].rh.Node.Done
    /\ tick[t].rh.PrepareGraph
    /\ \E fetchedHandles \in {getDoneJobs(fetched)} :
       \E content \in {buildGephiFile(tick[t].rh, fetchedHandles)} :
       \E saved \in {BuiltRootHandle(tick[t].rh)} :
           \/ /\ blob' = content
              /\ root' = saved
              /\ Returns(t, Msg("Graph built", 0, ""))
              /\ UNCHANGED budget
           \/ /\ Fails(t, "storage")     \* before the object is written
              /\ root' = saved
              /\ UNCHANGED <<blob, msgs>>
           \/ /\ Fails(t, "store")       \* after the object is written
              /\ blob' = content
              /\ UNCHANGED <<root, msgs>>
    /\ UNCHANGED <<enq, del, jobs, drv, world, fetched, observing, fcalls, hydrations>>

\* runTick, PrepareGraph: the graph is built from the hydrated handles and
\* written to the bucket, then the RootHandle is saved as done.
TickBuild(t) ==
    /\ tick[t].pc = "run"
    /\ ~tick[t].rh.Node.Done
    /\ tick[t].rh.PrepareGraph
    /\ \E fetchedHandles \in {getDoneJobs(fetched)} :
       \E content \in {buildGephiFile(tick[t].rh, fetchedHandles)} :
       \E saved \in {BuiltRootHandle(tick[t].rh)} :
           \/ /\ blob' = content
              /\ root' = saved
              /\ Returns(t, Msg("Graph built", 0, ""))
              /\ UNCHANGED budget
           \/ /\ Fails(t, "storage")     \* before the object is written
              /\ UNCHANGED <<blob, root, msgs>>
           \/ /\ Fails(t, "store")       \* after the object is written
              /\ blob' = content
              /\ UNCHANGED <<root, msgs>>
    /\ UNCHANGED <<enq, del, jobs, drv, world, fetched, observing, fcalls, hydrations>>

\* runTick testing the cursors before PrepareGraph.
PageFetchBeforeBuild(t) ==
    /\ tick[t].pc = "run"
    /\ ~tick[t].rh.Node.Done
    /\ tick[t].rh.FollowersCursor # 0 \/ tick[t].rh.FriendsCursor # 0
    /\ LET rh == tick[t].rh
           isFollowers == rh.FollowersCursor # 0
           cursor == IF isFollowers THEN rh.FollowersCursor ELSE rh.FriendsCursor
           res == IF isFollowers THEN addFollowersPage(world, rh.Node, cursor)
                  ELSE addFriendsPage(world, rh.Node, cursor)
           call == IF isFollowers THEN "followers/ids" ELSE "friends/ids"
           rh2 == IF isFollowers
                  THEN [rh EXCEPT !.Node = res.node, !.FollowersCursor = res.nextCursor]
                  ELSE [rh EXCEPT !.Node = res.node, !.FriendsCursor = res.nextCursor]
       IN  /\ fcalls' = IF observing /\ isFollowers THEN Append(fcalls, cursor) ELSE fcalls
           /\ \/ /\ tick' = [tick EXCEPT ![t].pc = IF res.addedIDs = <<>> THEN "save" ELSE "batch",
                                         ![t].rh = rh2,
                                         ![t].side = IF isFollowers THEN "Follower" ELSE "Friend",
                                         ![t].pending = res.addedIDs,
                                         ![t].nadded = Len(res.addedIDs),
                                         ![t].ncalls = @ + 1,
                                         ![t].acalls = Append(@, call)]
                 /\ UNCHANGED budget
              \/ /\ CanFail
                 /\ budget' = budget - 1
                 /\ tick' = [tick EXCEPT ![t].pc = "failed", ![t].err = "upstream",
                                         ![t].ncalls = @ + 1,
                                         ![t].acalls = Append(@, call)]
    /\ UNCHANGED <<enq, del, jobs, drv, world, root, fetched, blob, observing, msgs, hydrations>>

\* runTick, FollowersCursor != 0 or else FriendsCursor != 0: the call of
\* addFollowersPage or addFriendsPage and the assignment of the cursor.
PageFetch(t) ==
    /\ tick[t].pc = "run"
    /\ ~tick[t].rh.Node.Done
    /\ ~tick[t].rh.PrepareGraph
    /\ tick[t].rh.FollowersCursor # 0 \/ tick[t].rh.FriendsCursor # 0
    /\ LET rh == tick[t].rh
           isFollowers == rh.FollowersCursor # 0
           cursor == IF isFollowers THEN rh.FollowersCursor ELSE rh.FriendsCursor
           res == IF isFollowers THEN addFollowersPage(world, rh.Node, cursor)
                  ELSE addFriendsPage(world, rh.Node, cursor)
           call == IF isFollowers THEN "followers/ids" ELSE "friends/ids"
           rh2 == IF isFollowers
                  THEN [rh EXCEPT !.Node = res.node, !.FollowersCursor = res.nextCursor]
                  ELSE [rh EXCEPT !.Node = res.node, !.FriendsCursor = res.nextCursor]
       IN  /\ fcalls' = IF observing /\ isFollowers THEN Append(fcalls, cursor) ELSE fcalls
           /\ \/ /\ tick' = [tick EXCEPT ![t].pc = IF res.addedIDs = <<>> THEN "save" ELSE "batch",
                                         ![t].rh = rh2,
                                         ![t].side = IF isFollowers THEN "Follower" ELSE "Friend",
                                         ![t].pending = res.addedIDs,
                                         ![t].nadded = Len(res.addedIDs),
                                         ![t].ncalls = @ + 1,
                                         ![t].acalls = Append(@, call)]
                 /\ UNCHANGED budget
              \/ /\ CanFail
                 /\ budget' = budget - 1
                 /\ tick' = [tick EXCEPT ![t].pc = "failed", ![t].err = "upstream",
                                         ![t].ncalls = @ + 1,
                                         ![t].acalls = Append(@, call)]
    /\ UNCHANGED <<enq, del, jobs, drv, world, root, fetched, blob, observing, msgs, hydrations>>

\* newFetchedHandles called after saveRootHandle: the RootHandle is already
\* saved when a batch is committed or fails.
NewFetchedBatchAfterSave(t) ==
    /\ tick[t].pc = "batch"
    /\ root' = tick[t].rh
    /\ \/ /\ fetched' = SetFetchedHandles(fetched, tick[t].side, tick[t].rh.Node.TwitterID,
                                          NextBatch(tick[t].pending))
          /\ tick' = [tick EXCEPT ![t].pending = AfterBatch(@),
                                  ![t].pc = IF AfterBatch(tick[t].pending) = <<>>
                                            THEN "save" ELSE "batch"]
          /\ UNCHANGED budget
       \/ /\ Fails(t, "store")
          /\ UNCHANGED fetched
    /\ UNCHANGED <<enq, del, jobs, drv, world, blob, observing, msgs, fcalls, hydrations>>

\* newFetchedHandles: one committed batch of Set operations.
NewFetchedBatch(t) ==
    /\ tick[t].pc = "batch"
    /\ \/ /\ fetched' = SetFetchedHandles(fetched, tick[t].side, tick[t].rh.Node.TwitterID,
                                          NextBatch(tick[t].pending))
          /\ tick' = [tick EXCEPT ![t].pending = AfterBatch(@),
                                  ![t].pc = IF AfterBatch(tick[t].pending) = <<>>
                                            THEN "save" ELSE "batch"]
          /\ UNCHANGED budget
       \/ /\ Fails(t, "store")
          /\ UNCHANGED fetched
    /\ UNCHANGED <<enq, del, jobs, drv, world, root, blob, observing, msgs, fcalls, hydrations>>

\* The end of a page branch appending the page to the lists of the stored
\* RootHandle instead of saving the lists of the loaded one.
SaveRootAppending(t) ==
    /\ tick[t].pc = "save"
    /\ root # NoJob
    /\ LET msg == Msg(IF tick[t].side = "Follower" THEN "Fetched %v follower IDs"
                      ELSE "Fetched %v friend IDs", tick[t].nadded, "")
           list == IF tick[t].side = "Follower" THEN tick[t].rh.Node.FollowerIDs
                   ELSE tick[t].rh.Node.FriendIDs
           added == SubSeq(list, Len(list) - tick[t].nadded + 1, Len(list))
       IN  \/ /\ root' = [tick[t].rh EXCEPT
                            !.Status = msg,
                            !.Node.FollowerIDs = IF tick[t].side = "Follower"
                                                 THEN root.Node.FollowerIDs \o added
                                                 ELSE root.Node.FollowerIDs,
                            !.Node.FriendIDs = IF tick[t].side = "Friend"
                                               THEN root.Node.FriendIDs \o added
                                               ELSE root.Node.FriendIDs]
              /\ Returns(t, msg)
              /\ UNCHANGED budget
           \/ /\ Fails(t, "store")
              /\ UNCHANGED <<root, msgs>>
    /\ UNCHANGED <<enq, del, jobs, drv, world, fetched, blob, observing, fcalls, hydrations>>

\* The end of a page branch: the status is set and the RootHandle saved.
SaveRoot(t) ==
    /\ tick[t].pc = "save"
    /\ LET msg == Msg(IF tick[t].side = "Follower" THEN "Fetched %v follower IDs"
                      ELSE "Fetched %v friend IDs", tick[t].nadded, "")
       IN  \/ /\ root' = [tick[t].rh EXCEPT !.Status = msg]
              /\ Returns(t, msg)
              /\ UNCHANGED budget
           \/ /\ Fails(t, "store")
              /\ UNCHANGED <<root, msgs>>
    /\ UNCHANGED <<enq, del, jobs, drv, world, fetched, blob, observing, fcalls, hydrations>>

\* runTick, Remaining == -1: the distinct IDs are counted and saved.
TickCount(t) ==
    /\ tick[t].pc = "run"
    /\ ~tick[t].rh.Node.Done
    /\ ~tick[t].rh.PrepareGraph
    /\ tick[t].rh.FollowersCursor = 0
    /\ tick[t].rh.FriendsCursor = 0
    /\ tick[t].rh.Remaining = -1
    /\ LET saved == CountedRootHandle(tick[t].rh)
       IN  \/ /\ root' = saved
              /\ Returns(t, saved.Status)
              /\ UNCHANGED budget
           \/ /\ Fails(t, "store")
              /\ UNCHANGED <<root, msgs>>
    /\ UNCHANGED <<enq, del, jobs, drv, world, fetched, blob, observing, fcalls, hydrations>>

\* Whether the tick is to run (or run again) the hydration closure.
AtTransaction(t) ==
    \/ tick[t].pc = "tx"
    \/ /\ tick[t].pc = "run"
       /\ ~tick[t].rh.Node.Done
       /\ ~tick[t].rh.PrepareGraph
       /\ tick[t].rh.FollowersCursor = 0
       /\ tick[t].rh.FriendsCursor = 0
       /\ tick[t].rh.Remaining # -1

\* The hydration closure up to its first upstream call: the RootHandle is
\* read again and one unfinished FetchedHandle queried, both inside the
\* transaction; with none left the RootHandle is set to PrepareGraph.
TxBegin(t) ==
    /\ AtTransaction(t)
    /\ \/ /\ root # NoJob
          /\ Unfinished(fetched) = {}
          /\ tick' = [tick EXCEPT ![t].pc = "commit",
                                  ![t].att = @ + 1,
                                  ![t].acalls = <<>>,
                                  ![t].txRoot = root,
                                  ![t].txDoc = NoHandle,
                                  ![t].fh = NoHandle,
                                  ![t].rh = PreparingRootHandle(root)]
          /\ UNCHANGED budget
       \/ /\ root # NoJob
          /\ \E id \in Unfinished(fetched) :
                tick' = [tick EXCEPT ![t].pc = "fetch",
                                     ![t].att = @ + 1,
                                     ![t].acalls = <<>>,
                                     ![t].txRoot = root,
                                     ![t].txDoc = fetched[id],
                                     ![t].fh = fetched[id],
                                     ![t].rh = root]
          /\ UNCHANGED budget
       \/ /\ root # NoJob
          /\ Fails(t, "store")        \* the query fails: the closure returns err
       \/ /\ CanFail                  \* the read of the RootHandle fails: its error
          /\ budget' = budget - 1     \* is overwritten, the nil RootHandle is
          /\ tick' = [tick EXCEPT ![t] = PanickedTick]   \* dereferenced, the handler panics
       \/ /\ root = NoJob             \* the document is gone: the read returns
          /\ UNCHANGED budget         \* NotFound, with the same end
          /\ tick' = [tick EXCEPT ![t] = PanickedTick]
    /\ UNCHANGED <<enq, del, jobs, drv, world, root, fetched, blob, observing, msgs, fcalls, hydrations>>

\* The hydration closure from getTwitterUser to the buffered writes of
\* hydrateHandle and saveRootHandleTransaction.
TxFetch(t) ==
    /\ tick[t].pc = "fetch"
    /\ \E twitterUser \in {getTwitterUser(world, tick[t].fh.Node.TwitterID)} :
       \E calls \in {HydrationCalls(twitterUser)} :
       \E n1 \in {WithFriendsPage(world, calls, tick[t].fh.Node)} :
       \E n2 \in {WithFollowersPage(world, calls, n1)} :
       \E fh2 \in {hydrateHandle(twitterUser, [tick[t].fh EXCEPT !.Node = n2])} :
           \/ /\ ~twitterUser.err
              /\ tick' = [tick EXCEPT ![t].pc = "commit",
                                      ![t].acalls = @ \o calls,
                                      ![t].fh = fh2,
                                      ![t].ncalls = @ + Len(calls),
                                      ![t].rh = HydratedRootHandle(@, fh2)]
              /\ UNCHANGED budget
           \/ /\ CanFail
              /\ budget' = budget - 1
              /\ \E k \in 1..Len(calls) :
                    tick' = [tick EXCEPT ![t].pc = "failed", ![t].err = "upstream",
                                         ![t].ncalls = @ + k,
                                         ![t].acalls = @ \o SubSeq(calls, 1, k)]
    /\ UNCHANGED <<enq, del, jobs, drv, world, root, fetched, blob, observing, msgs, fcalls, hydrations>>

\* Writes that are not checked against what was read (no transaction).
TxAlwaysValid(t) == TRUE

\* Whether what the transaction read is still what is stored.
TxValid(t) ==
    /\ root = tick[t].txRoot
    /\ IF tick[t].txDoc = NoHandle
       THEN Unfinished(fetched) = {}
       ELSE /\ tick[t].txDoc.Node.TwitterID \in DOMAIN fetched
            /\ fetched[tick[t].txDoc.Node.TwitterID] = tick[t].txDoc

\* The commit also creating FetchedHandles for the IDs attached to the
\* hydrated handle.
TxCommitEnqueuesAttached(t) ==
    /\ tick[t].pc = "commit"
    /\ IF TxValid(t)
       THEN \/ /\ root' = tick[t].rh
               /\ fetched' = IF tick[t].txDoc = NoHandle THEN fetched
                             ELSE LET ids == tick[t].fh.Node.FriendIDs
                                                \o tick[t].fh.Node.FollowerIDs
                                      docs == SetFetchedHandlesKeepExisting(
                                                  fetched, "Friend",
                                                  tick[t].rh.Node.TwitterID, ids)
                                  IN  [docs EXCEPT ![tick[t].fh.Node.TwitterID] = tick[t].fh]
               /\ hydrations' = IF observing /\ tick[t].txDoc # NoHandle
                                THEN Append(hydrations, tick[t].fh.Node.TwitterID)
                                ELSE hydrations
               /\ Returns(t, tick[t].rh.Status)
               /\ UNCHANGED budget
            \/ /\ Fails(t, "store")
               /\ UNCHANGED <<root, fetched, hydrations, msgs>>
       ELSE /\ tick' = IF tick[t].att < MaxAttempts
                       THEN [tick EXCEPT ![t].pc = "tx"]
                       ELSE [tick EXCEPT ![t].pc = "failed", ![t].err = "aborted"]
            /\ UNCHANGED <<root, fetched, hydrations, msgs, budget>>
    /\ UNCHANGED <<enq, del, jobs, drv, world, blob, observing, fcalls>>

\* The commit of the transaction: its writes are applied together, or, when
\* another write got in between, none is and the closure is run again.
TxCommit(t) ==
    /\ tick[t].pc = "commit"
    /\ IF TxValid(t)
       THEN \/ /\ root' = tick[t].rh
               /\ fetched' = IF tick[t].txDoc = NoHandle THEN fetched
                             ELSE [fetched EXCEPT ![tick[t].fh.Node.TwitterID] = tick[t].fh]
               /\ hydrations' = IF observing /\ tick[t].txDoc # NoHandle
                                THEN Append(hydrations, tick[t].fh.Node.TwitterID)
                                ELSE hydrations
               /\ Returns(t, tick[t].rh.Status)
               /\ UNCHANGED budget
            \/ /\ Fails(t, "store")
               /\ UNCHANGED <<root, fetched, hydrations, msgs>>
       ELSE /\ tick' = IF tick[t].att < MaxAttempts
                       THEN [tick EXCEPT ![t].pc = "tx"]
                       ELSE [tick EXCEPT ![t].pc = "failed", ![t].err = "aborted"]
            /\ UNCHANGED <<root, fetched, hydrations, msgs, budget>>
    /\ UNCHANGED <<enq, del, jobs, drv, world, blob, observing, fcalls>>

\* The status written with Set on the RootHandle as it was loaded.
WorkerErrorSet(t) ==
    /\ tick[t].pc = "failed"
    /\ \E s \in {Msg("worker error", 0, tick[t].err)} :
          \/ /\ root' = [tick[t].loaded EXCEPT !.Status = s]
             /\ tick' = [tick EXCEPT ![t] = [IdleTick EXCEPT !.resp = ErrorResponse(s, "<nil>")]]
          \/ /\ UNCHANGED root
             /\ tick' = [tick EXCEPT ![t] = [IdleTick EXCEPT !.resp = ErrorResponse(s, "error")]]
    /\ UNCHANGED <<enq, del, jobs, drv, world, fetched, blob, budget, observing, msgs, fcalls, hydrations>>

\* workerHandler after a failed tick: updateRootHandleStatus overwrites the
\* Status of the stored RootHandle (the write may fail, and fails when the
\* document does not exist), and the handler goes on.
WorkerError(t) ==
    /\ tick[t].pc = "failed"
    /\ \E s \in {Msg("worker error", 0, tick[t].err)} :
          \/ /\ root # NoJob
             /\ root' = [root EXCEPT !.Status = s]
             /\ tick' = [tick EXCEPT ![t] = [IdleTick EXCEPT !.resp = ErrorResponse(s, "<nil>")]]
          \/ /\ UNCHANGED root
             /\ tick' = [tick EXCEPT ![t] = [IdleTick EXCEPT !.resp = ErrorResponse(s, "error")]]
    /\ UNCHANGED <<enq, del, jobs, drv, world, fetched, blob, budget, observing, msgs, fcalls, hydrations>>

Step(t) ==
    \/ WorkerLoad(t)
    \/ TickBuild(t)
    \/ PageFetch(t)
    \/ NewFetchedBatch(t)
    \/ SaveRoot(t)
    \/ TickCount(t)
    \/ TxBegin(t)
    \/ TxFetch(t)
    \/ TxCommit(t)
    \/ WorkerError(t)

(***************************************************************************)
(* main.go, storage.go: workerHandler over the RootHandles of all owners.  *)
(* A RootHandle is here its document path (LoginID, TwitterID) and the     *)
(* branch of runTick its fields select: Phase "paging" (a cursor is not 0  *)
(* or Remaining is -1), "hydrating", "building" (PrepareGraph) or "done"   *)
(* (Node.Done).  Created is the order of the enqueueHandle calls; no field *)
(* of the document records it.                                             *)
(***************************************************************************)
\* The User documents, in the order of their document IDs.
OwnerOrder == <<"a", "b">>

Owners == Range(OwnerOrder)

\* The TwitterIDs "2" and "10" of the roots.
JobIDs == {<<2>>, <<1, 0>>}

JobKeys == Owners \X JobIDs

Phases == {"paging", "hydrating", "building", "done"}

\* A nil *RootHandle.
NilRoot == [nil |-> TRUE]

NoRequest == [mode |-> "", owner |-> "", id |-> <<>>]

\* The paths workerPrefix/LoginID/TwitterID, workerPrefix/LoginID and
\* workerPrefix.
Requests ==
    {[mode |-> "exact", owner |-> o, id |-> id] : o \in Owners, id \in JobIDs}
      \cup {[mode |-> "owner", owner |-> o, id |-> <<>>] : o \in Owners}
      \cup {[mode |-> "all", owner |-> "", id |-> <<>>]}

\* getRootHandleFromString returning a zero RootHandle for a missing document.
getRootHandleFromStringZero(store, userID, twitterID) ==
    IF <<userID, twitterID>> \in DOMAIN store
    THEN [err |-> FALSE, handle |-> store[<<userID, twitterID>>]]
    ELSE [err |-> FALSE,
          handle |-> [LoginID |-> userID, TwitterID |-> twitterID, Phase |-> "paging",
                      Status |-> "", Created |-> 0]]

\* getRootHandleFromString: Get of the document; NotFound when it is missing.
getRootHandleFromString(store, userID, twitterID) ==
    IF <<userID, twitterID>> \in DOMAIN store
    THEN [err |-> FALSE, handle |-> store[<<userID, twitterID>>]]
    ELSE [err |-> TRUE, handle |-> NilRoot]

\* The documents the query Where("Node.Done", "==", false) of a user matches.
UnfinishedOf(store, userID) ==
    {k \in DOMAIN store : k[1] = userID /\ store[k].Phase # "done"}

\* getUnfinishedRootHandle returning the last document of the query.
getUnfinishedRootHandleLast(store, userID) ==
    LET U == UnfinishedOf(store, userID)
    IN  IF U = {} THEN NilRoot
        ELSE store[CHOOSE k \in U : \A k2 \in U \ {k} : LexLess(k2[2], k[2])]

\* getUnfinishedRootHandle: the first document of the query with Limit(1),
\* which has no OrderBy and so is ordered by document ID; nil when the query
\* is empty.
getUnfinishedRootHandle(store, userID) ==
    LET U == UnfinishedOf(store, userID)
    IN  IF U = {} THEN NilRoot
        ELSE store[CHOOSE k \in U : \A k2 \in U \ {k} : LexLess(k[2], k2[2])]

\* getRootHandlePerUser appending every unfinished RootHandle of each user.
getRootHandlePerUserAll(store) ==
    LET ks == SortIDs({<<IF k[1] = "a" THEN 1 ELSE 2>> \o k[2] :
                          k \in UNION {UnfinishedOf(store, o) : o \in Owners}})
    IN  [i \in 1..Len(ks) |-> store[<<OwnerOrder[Head(ks[i])], Tail(ks[i])>>]]

\* getRootHandlePerUser: for each User document the RootHandle
\* getUnfinishedRootHandle returns, when it is not nil.
getRootHandlePerUser(store) ==
    LET hs == [i \in 1..Len(OwnerOrder) |-> getUnfinishedRootHandle(store, OwnerOrder[i])]
    IN  SelectSeq(hs, LAMBDA h : h # NilRoot)

\* workerHandler, the selection of rootHandles by the arguments of the path.
Selection(store, req) ==
    CASE req.mode = "exact" ->
            LET r == getRootHandleFromString(store, req.owner, req.id)
            IN  [err |-> r.err, rootHandles |-> IF r.err THEN <<>> ELSE <<r.handle>>]
      [] req.mode = "owner" ->
            [err |-> FALSE, rootHandles |-> <<getUnfinishedRootHandle(store, req.owner)>>]
      [] OTHER ->
            [err |-> FALSE, rootHandles |-> getRootHandlePerUser(store)]

\* The branch a successful tick leaves the RootHandle in.
NextPhases(phase) ==
    CASE phase = "paging" -> {"paging", "hydrating"}
      [] phase = "hydrating" -> {"hydrating", "building"}
      [] OTHER -> {"done"}

\* The local variables of workerHandler before the request is read.
IdleDriver ==
    [pc |-> "new",
     req |-> NoRequest,
     minute |-> -1,         \* time.Now().Minute() when the request arrived
     store0 |-> << >>,      \* the documents when the request arrived
     rootHandles |-> << >>,
     i |-> 0,               \* position of the loop over rootHandles
     outcomes |-> << >>,    \* what the loop did for each RootHandle
     writes |-> 0,          \* store writes of the invocation
     calls |-> 0,           \* upstream calls of the invocation
     resp |-> ""]

tickVars == <<world, root, fetched, blob, tick, budget, observing, msgs, fcalls, hydrations>>

\* The minutes of the hour at which the trigger arrives.
Minutes == {0, 1, 10, 59}

\* workerHandler skipping the tick at the full hour only.
ThrottledOnTheHour(minute) == minute = 0

\* workerHandler, time.Now().Minute()%10 == 0.
Throttled(minute) == minute % 10 = 0

\* workerHandler in a minute that is a multiple of 10.
DriverSkip ==
    /\ drv.pc = "new"
    /\ \E minute \in Minutes :
          /\ Throttled(minute)
          /\ drv' = [drv EXCEPT !.pc = "end", !.minute = minute, !.store0 = jobs,
                                !.resp = "Skipping tick"]
    /\ UNCHANGED <<enq, del, jobs, tickVars>>

\* workerHandler, the selection; an error of it is answered by logError.
DriverSelect ==
    /\ drv.pc = "new"
    /\ \E minute \in Minutes, req \in Requests :
       \E sel \in {Selection(jobs, req)} :
          /\ ~Throttled(minute)
          /\ drv' = IF sel.err
                    THEN [drv EXCEPT !.pc = "end", !.minute = minute, !.req = req,
                                     !.store0 = jobs, !.resp = "worker error: NotFound"]
                    ELSE [drv EXCEPT !.pc = "selected", !.minute = minute, !.req = req,
                                     !.store0 = jobs, !.rootHandles = sel.rootHandles]
    /\ UNCHANGED <<enq, del, jobs, tickVars>>

\* workerHandler, len(rootHandles) == 0 || rootHandles[0].Node.Done: a nil
\* rootHandles[0] is dereferenced and the handler panics.
DriverCheck ==
    /\ drv.pc = "selected"
    /\ drv' = IF Len(drv.rootHandles) = 0
              THEN [drv EXCEPT !.pc = "end", !.resp = "User done"]
              ELSE IF drv.rootHandles[1] = NilRoot
              THEN [drv EXCEPT !.pc = "end", !.resp = "panic"]
              ELSE IF drv.rootHandles[1].Phase = "done"
              THEN [drv EXCEPT !.pc = "end", !.resp = "User done"]
              ELSE [drv EXCEPT !.pc = "loop", !.i = 1]
    /\ UNCHANGED <<enq, del, jobs, tickVars>>

\* One iteration of the loop over rootHandles.
DriverTick ==
    /\ drv.pc = "loop"
    /\ drv.i <= Len(drv.rootHandles)
    /\ \E rootHandle \in {drv.rootHandles[drv.i]} :
       \E k \in {<<rootHandle.LoginID, rootHandle.TwitterID>>} :
          \/ /\ jobs' = [jobs EXCEPT ![k].Status = "twitter error"]
             /\ drv' = [drv EXCEPT !.i = @ + 1, !.writes = @ + 1,
                                   !.outcomes = Append(@, [key |-> k, ticked |-> FALSE])]
          \/ /\ jobs' = [jobs EXCEPT ![k].Status = "worker error"]
             /\ drv' = [drv EXCEPT !.i = @ + 1, !.writes = @ + 1,
                                   !.outcomes = Append(@, [key |-> k, ticked |-> TRUE])]
          \/ /\ \E phase \in NextPhases(rootHandle.Phase) :
                   jobs' = [jobs EXCEPT ![k] = [rootHandle EXCEPT !.Phase = phase,
                                                                  !.Status = "updated"]]
             /\ drv' = [drv EXCEPT !.i = @ + 1, !.writes = @ + 1,
                                   !.calls = IF rootHandle.Phase = "building" THEN @ ELSE @ + 1,
                                   !.outcomes = Append(@, [key |-> k, ticked |-> TRUE])]
          \/ /\ rootHandle.Phase = "hydrating"    \* the transaction's read fails
             /\ drv' = [drv EXCEPT !.pc = "end", !.resp = "panic",
                                   !.outcomes = Append(@, [key |-> k, ticked |-> TRUE])]
             /\ UNCHANGED jobs
    /\ UNCHANGED <<enq, del, tickVars>>

\* workerHandler returning after the loop.
DriverDone ==
    /\ drv.pc = "loop"
    /\ drv.i > Len(drv.rootHandles)
    /\ drv' = [drv EXCEPT !.pc = "end", !.resp = "Updated"]
    /\ UNCHANGED <<enq, del, jobs, tickVars>>

(***************************************************************************)
(* main.go and storage.go: deleteHandleHandler and deleteRootHandle.  Every *)
(* committed batch and the delete of the RootHandle is a separate step.    *)
(***************************************************************************)
\* The batch size at which deleteRootHandle commits.
DeleteBatchLimit == 500

\* The local variables of a deleteHandleHandler invocation that is not running.
IdleDelete ==
    [pc |-> "idle",
     refs |-> {},             \* the DocumentRefs the iterator has not returned yet
     commits |-> <<>>,        \* the number of deletes of each committed batch
     resp |-> ""]

\* The first k of the document IDs R in the order of the iterator.
FirstRefs(R, k) == {id \in R : Cardinality({x \in R : LexLess(x, id)}) < k}

\* The documents left after a committed batch of Delete operations.
DeleteFetchedHandles(docs, ids) == [id \in DOMAIN docs \ ids |-> docs[id]]

\* The delete ends with an error after a failed store call.
DeleteFails(resp) ==
    /\ CanFail
    /\ budget' = budget - 1
    /\ del' = [del EXCEPT !.pc = "end", !.resp = resp]

\* deleteHandleHandler up to the call of deleteRootHandle, and the start of
\* the iteration over the FetchedHandle collection.
DeleteLoad ==
    /\ del.pc \in {"idle", "end"}
    /\ \/ /\ root = NoJob
          /\ del' = [IdleDelete EXCEPT !.pc = "end", !.resp = "could not find identified user"]
          /\ UNCHANGED budget
       \/ /\ root # NoJob
          /\ del' = [IdleDelete EXCEPT !.pc = "iter", !.refs = DOMAIN fetched]
          /\ UNCHANGED budget
       \/ /\ root # NoJob
          /\ DeleteFails("could not find identified user")
    /\ UNCHANGED <<enq, jobs, drv, world, root, fetched, blob, tick, observing, msgs, fcalls, hydrations>>

\* deleteRootHandle, the loop: the iterator returns DeleteBatchLimit
\* references and the batch of their deletes is committed.
DeleteBatch ==
    /\ del.pc = "iter"
    /\ Cardinality(del.refs) >= DeleteBatchLimit
    /\ \/ \E batch \in {FirstRefs(del.refs, DeleteBatchLimit)} :
            /\ fetched' = DeleteFetchedHandles(fetched, batch)
            /\ del' = [del EXCEPT !.refs = @ \ batch,
                                  !.commits = Append(@, Cardinality(batch))]
            /\ UNCHANGED budget
       \/ /\ DeleteFails("failed to delete handle")
          /\ UNCHANGED fetched
    /\ UNCHANGED <<enq, jobs, drv, world, root, blob, tick, observing, msgs, fcalls, hydrations>>

\* deleteRootHandle without the commit after the loop.
DeleteRestUncommitted ==
    /\ del.pc = "iter"
    /\ Cardinality(del.refs) < DeleteBatchLimit
    /\ del' = [del EXCEPT !.pc = "root", !.refs = {}]
    /\ UNCHANGED <<enq, jobs, drv, world, root, fetched, blob, tick, budget, observing, msgs,
                   fcalls, hydrations>>

\* deleteRootHandle after the loop: the deletes left in the batch are
\* committed when there are any.
DeleteRest ==
    /\ del.pc = "iter"
    /\ Cardinality(del.refs) < DeleteBatchLimit
    /\ \/ /\ fetched' = DeleteFetchedHandles(fetched, del.refs)
          /\ del' = [del EXCEPT !.pc = "root", !.refs = {},
                                !.commits = IF del.refs = {} THEN @
                                            ELSE Append(@, Cardinality(del.refs))]
          /\ UNCHANGED budget
       \/ /\ DeleteFails("failed to delete handle")
          /\ UNCHANGED fetched
    /\ UNCHANGED <<enq, jobs, drv, world, root, blob, tick, observing, msgs, fcalls, hydrations>>

\* deleteRootHandle, the end: the RootHandle document is deleted.
DeleteRoot ==
    /\ del.pc = "root"
    /\ \/ /\ root' = NoJob
          /\ del' = [del EXCEPT !.pc = "end", !.resp = "OK"]
          /\ UNCHANGED budget
       \/ /\ DeleteFails("failed to delete handle")
          /\ UNCHANGED root
    /\ UNCHANGED <<enq, jobs, drv, world, fetched, blob, tick, observing, msgs, fcalls, hydrations>>

\* No RootHandle, no worker invocation under way.
InitTick ==
    /\ enq = NoAnswer
    /\ drv = IdleDriver
    /\ del = IdleDelete
    /\ root = NoJob
    /\ fetched = [id \in {} |-> NoHandle]
    /\ blob = NoBlob
    /\ tick = [t \in Procs |-> IdleTick]
    /\ msgs = <<>>
    /\ fcalls = <<>>
    /\ hydrations = <<>>

InitStore == InitTick /\ jobs = << >>

(***************************************************************************)
(* Spec: worker invocations that may overlap.                              *)
(***************************************************************************)
Init ==
    /\ InitStore
    /\ world \in OverlapWorlds
    /\ budget = 0
    /\ observing = FALSE

Next == Enqueue \/ \E t \in Procs : Step(t)

Spec == Init /\ [][Next]_vars

(***************************************************************************)
(* SerialSpec: one worker invocation at a time, observed.                  *)
(***************************************************************************)
SerialInit ==
    /\ InitStore
    /\ world \in Worlds
    /\ budget = MaxFail
    /\ observing = TRUE

SerialNext == Enqueue \/ Step("t1")

SerialSpec == SerialInit /\ [][SerialNext]_vars

FairSerialSpec == SerialSpec /\ WF_vars(SerialNext)


(***************************************************************************)
(* HydrationSpec: serialized ticks, except that a second invocation "t2"   *)
(* is started on a Job in the hydration phase with Remaining = 1 and one   *)
(* unhydrated FetchedHandle which "t1" has loaded and not yet worked on.   *)
(***************************************************************************)
HydrationPair ==
    /\ root # NoJob
    /\ ~root.Node.Done
    /\ ~root.PrepareGraph
    /\ root.FollowersCursor = 0
    /\ root.FriendsCursor = 0
    /\ root.Remaining = 1
    /\ Cardinality(Unfinished(fetched)) = 1

MayLoad(t) ==
    IF t = "t1" THEN tick["t2"].pc = "idle"
    ELSE /\ tick["t1"].pc = "run"
         /\ tick["t1"].loaded = root
         /\ HydrationPair

HydrationStep(t) ==
    \/ MayLoad(t) /\ WorkerLoad(t)
    \/ TickBuild(t)
    \/ PageFetch(t)
    \/ NewFetchedBatch(t)
    \/ SaveRoot(t)
    \/ TickCount(t)
    \/ TxBegin(t)
    \/ TxFetch(t)
    \/ TxCommit(t)
    \/ WorkerError(t)

HydrationNext == Enqueue \/ \E t \in Procs : HydrationStep(t)

HydrationSpec == SerialInit /\ [][HydrationNext]_vars

(***************************************************************************)
(* CountSpec: serialized ticks without failures up to the counting step,   *)
(* for every root whose friend and follower lists (one page each) are      *)
(* drawn from the lists of at most MaxListLen of the IDs 1, 2, 3.          *)
(***************************************************************************)
MaxListLen == 3

CountLists == UNION {[1..n -> {1, 2, 3}] : n \in 0..MaxListLen}

OnePage(ids) == IF ids = <<>> THEN << >> ELSE <<ids>>

CountWorlds ==
    {[rootID |-> 9, followers |-> OnePage(fo), friends |-> OnePage(fr),
      descriptions |-> << >>] :
        fo \in CountLists, fr \in CountLists} \cup {WorldDedup}

CountInit ==
    /\ InitStore
    /\ world \in CountWorlds
    /\ budget = 0
    /\ observing = TRUE

CountNext ==
    \/ Enqueue
    \/ WorkerLoad("t1")
    \/ PageFetch("t1")
    \/ NewFetchedBatch("t1")
    \/ SaveRoot("t1")
    \/ TickCount("t1")

CountSpec == CountInit /\ [][CountNext]_vars

(***************************************************************************)
(* Properties                                                              *)
(***************************************************************************)
IsPrefix(s, e) == Len(s) <= Len(e) /\ s = SubSeq(e, 1, Len(s))

NoDuplicates(s) == \A i, j \in 1..Len(s) : s[i] = s[j] => i = j

Reverse(s) == [i \in 1..Len(s) |-> s[Len(s) + 1 - i]]

\* Whether the counting step has returned its message.
Counted == \E i \in 1..Len(msgs) : msgs[i].text = "Enqueued %v handles"

\* C1: when two hydration transactions run concurrently on a Job with
\* Remaining = 1 and one unhydrated FetchedHandle, no FetchedHandle is
\* hydrated by more than one committed transaction, and from the counting
\* step on Remaining is the number of unhydrated FetchedHandles: it is
\* decremented once, ends at 0 and is never negative.
C1_HydrationOnce ==
    /\ NoDuplicates(hydrations)
    /\ (root # NoJob /\ Counted) =>
          /\ root.Remaining = Cardinality(Unfinished(fetched))
          /\ root.Remaining >= 0
    /\ (root # NoJob /\ Unfinished(fetched) = {} /\ Counted
          /\ \A t \in Procs : tick[t].pc = "idle") => root.Remaining = 0

\* The second transaction was aborted after the first one committed the
\* hydration of the only unhydrated handle, was run again and found none.
C1_Witness ==
    /\ tick["t2"].pc = "commit"
    /\ tick["t2"].att = 2
    /\ tick["t2"].txDoc = NoHandle
    /\ tick["t1"].pc = "idle"
    /\ hydrations # <<>>
    /\ root.Remaining = 0

\* C2: phases never regress: once the stored FollowersCursor is 0 it stays
\* 0, likewise FriendsCursor; once Remaining differs from -1 it never is -1
\* again; once Node.Done is true it stays true.
C2_PhasesNeverRegress ==
    [][(root # NoJob /\ root' # NoJob) =>
          /\ root.FollowersCursor = 0 => root'.FollowersCursor = 0
          /\ root.FriendsCursor = 0 => root'.FriendsCursor = 0
          /\ root.Remaining # -1 => root'.Remaining # -1
          /\ root.Node.Done => root'.Node.Done]_vars

\* C3: once the stored Node.Done is true, no tick changes any stored field
\* of the Job.
C3_DoneIsFinal ==
    [][(root # NoJob /\ root.Node.Done) => root' = root]_vars

\* The messages of the end-to-end scenario: two followers on one page and
\* no friends.
E2EFollowers == Msg("Fetched %v follower IDs", 2, "")
E2EFriends == Msg("Fetched %v friend IDs", 0, "")
E2ECount == Msg("Enqueued %v handles", 2, "")
E2EHydrations == {<<Msg("Fetched %v", 0, "u1"), Msg("Fetched %v", 0, "u2")>>,
                  <<Msg("Fetched %v", 0, "u2"), Msg("Fetched %v", 0, "u1")>>}
E2EEnd == <<Msg("Preparing graph", 0, ""), Msg("Graph built", 0, "")>>

E2ESix == {<<E2EFollowers, E2ECount>> \o h \o E2EEnd : h \in E2EHydrations}

E2ESeven == {<<E2EFollowers, E2EFriends, E2ECount>> \o h \o E2EEnd : h \in E2EHydrations}

\* Serialized ticks of the end-to-end scenario with no failure so far.
E2ERun == world = WorldOnePage /\ budget = MaxFail /\ root # NoJob

\* C4 as stated: the ticks return exactly six messages: follower page,
\* count, the two hydrations, "Preparing graph", "Graph built".
C4_SixMessages ==
    E2ERun => \E e \in E2ESix :
                 /\ IsPrefix(msgs, e)
                 /\ root.Node.Done => msgs = e

\* C4 amended: the ticks return exactly seven messages: follower page,
\* friend page ("Fetched 0 friend IDs"), count, the two hydrations,
\* "Preparing graph", "Graph built".
C4_SevenMessages ==
    E2ERun => \E e \in E2ESeven :
                 /\ IsPrefix(msgs, e)
                 /\ root.Node.Done => msgs = e

C4_Witness == E2ERun /\ root.Node.Done /\ Len(msgs) = 7

\* C5: an enqueued Job whose ticks keep being invoked, and whose calls
\* fail only finitely often, eventually is done and stays done.
C5_Convergence == (root # NoJob) ~> [](root # NoJob /\ root.Node.Done)

\* A Job that is done after every failure the budget allows.
C5_Witness == root # NoJob /\ root.Node.Done /\ budget = 0 /\ blob # NoBlob

C7_OneCallPerTick == \A t \in Procs : tick[t].ncalls <= 1

\* C7 amended: one run of a tick's branch calls each upstream endpoint at
\* most once: a page tick makes one call, a run of the hydration closure at
\* most three (users/show, friends/ids, followers/ids), and a tick whose
\* transaction is run again makes at most three per run.
C7_CallsPerRun ==
    \A t \in Procs :
        /\ NoDuplicates(tick[t].acalls)
        /\ Len(tick[t].acalls) <= 3
        /\ tick[t].pc \in {"batch", "save"} => tick[t].acalls \in {<<"followers/ids">>, <<"friends/ids">>}
        /\ tick[t].pc = "commit" /\ tick[t].txDoc # NoHandle => Head(tick[t].acalls) = "users/show"
        /\ tick[t].ncalls <= IF tick[t].att = 0 THEN 1 ELSE 3 * tick[t].att

\* A second run of the hydration closure that made three calls again.
C7_Witness ==
    \E t \in Procs : tick[t].att = 2 /\ Len(tick[t].acalls) = 3 /\ tick[t].ncalls > 3

\* The cursors of the follower-page calls of a root: -1, then every
\* next_cursor the API returned, up to the one that is 0.
RECURSIVE CursorChain(_, _)
CursorChain(pages, cursor) ==
    LET next == IDsPage(pages, cursor).NextCursor
    IN  <<cursor>> \o (IF next = 0 THEN <<>> ELSE CursorChain(pages, next))

\* C8: without failures the follower pages of the root are fetched with the
\* cursor -1 and then with each token the API returned, each once (two
\* calls for the sequence -1, token, 0); the stored FollowersCursor then is
\* 0 and no later tick fetches a follower page of the root.
C8_PaginationTerminates ==
    /\ [](budget = MaxFail /\ root # NoJob =>
            /\ IsPrefix(fcalls, CursorChain(world.followers, -1))
            /\ root.FollowersCursor = 0 => fcalls = CursorChain(world.followers, -1)
            /\ world = WorldTwoPages /\ root.FollowersCursor = 0 => fcalls = <<-1, 2>>)
    /\ [][root # NoJob /\ root.FollowersCursor = 0 => fcalls' = fcalls]_vars

C8_Witness ==
    /\ world = WorldTwoPages
    /\ budget = MaxFail
    /\ root # NoJob
    /\ root.Node.Done
    /\ fcalls = <<-1, 2>>

\* C9: the counting step sets Remaining to the number of distinct IDs in
\* the root's FriendIDs and FollowerIDs, whatever the order of the IDs and
\* whichever list is read first; [a,b,c] and [b,c,d] give 4.
C9_CountDistinct ==
    (root # NoJob /\ root.Remaining # -1) =>
        LET fr == root.Node.FriendIDs
            fo == root.Node.FollowerIDs
        IN  /\ root.Remaining = Cardinality(Range(fr) \cup Range(fo))
            /\ root.Remaining = CountUnique(fo, fr)
            /\ root.Remaining = CountUnique(Reverse(fr), Reverse(fo))
            /\ root.Status = Msg("Enqueued %v handles", root.Remaining, "")
            /\ world = WorldDedup => root.Remaining = 4

C9_Witness ==
    /\ world = WorldDedup
    /\ root # NoJob
    /\ root.Node.FriendIDs = <<<<1>>, <<2>>, <<3>>>>
    /\ root.Node.FollowerIDs = <<<<2>>, <<3>>, <<4>>>>
    /\ root.Remaining = 4

SameButStatus(a, b) == [a EXCEPT !.Status = NoStatus] = [b EXCEPT !.Status = NoStatus]

JobDoc(k, phase, created) ==
    [LoginID |-> k[1], TwitterID |-> k[2], Phase |-> phase, Status |-> "", Created |-> created]

DriverStores ==
    UNION {
      {[k \in K |-> JobDoc(k, f[k][1], f[k][2])] :
         f \in {g \in [K -> Phases \X (1..2)] :
                  \A k1, k2 \in K : (k1 # k2 /\ k1[1] = k2[1]) => g[k1][2] # g[k2][2]}} :
      K \in SUBSET JobKeys}

DriverInit ==
    /\ InitTick
    /\ jobs \in DriverStores
    /\ world = WorldNobody
    /\ budget = 0
    /\ observing = FALSE

DriverNext == DriverSkip \/ DriverSelect \/ DriverCheck \/ DriverTick \/ DriverDone

DriverSpec == DriverInit /\ [][DriverNext]_vars


KeyOf(rootHandle) == <<rootHandle.LoginID, rootHandle.TwitterID>>

\* The invocation has read its request and selected.
Selected == drv.pc \in {"selected", "loop", "end"} /\ drv.req # NoRequest

\* C11: in an invocation that entered the loop over the selected Jobs, a
\* failure of one Job's tick or client does not stop the loop: when the
\* invocation has ended, the loop has handled every selected Job exactly once.
C11_SiblingsTicked ==
    (drv.pc = "end" /\ drv.outcomes # << >>) =>
        \A i \in 1..Len(drv.rootHandles) :
            Cardinality({j \in 1..Len(drv.outcomes) :
                            drv.outcomes[j].key = KeyOf(drv.rootHandles[i])}) = 1

\* The request selects no Job, or only a Job that is done.
NothingToDo ==
    CASE drv.req.mode = "exact" ->
            /\ <<drv.req.owner, drv.req.id>> \in DOMAIN drv.store0
            /\ drv.store0[<<drv.req.owner, drv.req.id>>].Phase = "done"
      [] drv.req.mode = "owner" -> UnfinishedOf(drv.store0, drv.req.owner) = {}
      [] drv.req.mode = "all" -> \A o \in Owners : UnfinishedOf(drv.store0, o) = {}
      [] OTHER -> FALSE

\* C12: when the selected set is empty or the sole selected Job is done
\* (also with only an owner who has no not-done Job), the invocation
\* answers "User done" and makes no store write and no upstream call.
C12_NothingToDo ==
    (drv.pc = "end" /\ NothingToDo) =>
        /\ drv.resp = "User done"
        /\ drv.writes = 0
        /\ drv.calls = 0
        /\ jobs = drv.store0

\* C18: with no address the selected Jobs are not done, no two of them have
\* the same owner, and every owner with a not-done Job has one of them.
C18_OnePerOwner ==
    (Selected /\ drv.req.mode = "all") =>
        /\ \A i \in 1..Len(drv.rootHandles) :
              /\ KeyOf(drv.rootHandles[i]) \in DOMAIN drv.store0
              /\ drv.rootHandles[i] = drv.store0[KeyOf(drv.rootHandles[i])]
              /\ drv.rootHandles[i].Phase # "done"
        /\ \A i, j \in 1..Len(drv.rootHandles) :
              drv.rootHandles[i].LoginID = drv.rootHandles[j].LoginID => i = j
        /\ \A o \in Owners :
              UnfinishedOf(drv.store0, o) # {} =>
                  \E i \in 1..Len(drv.rootHandles) : drv.rootHandles[i].LoginID = o

\* Both owners have two not-done Jobs and one Job of each is in the loop.
C18_Witness ==
    /\ drv.req.mode = "all"
    /\ drv.pc = "loop"
    /\ Len(drv.rootHandles) = 2
    /\ \A o \in Owners : Cardinality(UnfinishedOf(drv.store0, o)) = 2

\* With only an owner and a Job selected.
OwnerSelected ==
    /\ Selected
    /\ drv.req.mode = "owner"
    /\ drv.rootHandles[1] # NilRoot

\* C19 as stated: with only an owner the selected Job is the earliest
\* enqueued of the owner's not-done Jobs.
C19_Oldest ==
    OwnerSelected =>
        \A k \in UnfinishedOf(drv.store0, drv.req.owner) :
            drv.rootHandles[1].Created <= drv.store0[k].Created

\* C19 amended: with only an owner the selected Job is the first of the
\* owner's not-done Jobs in the order of the document IDs (the TwitterID as
\* a string), whenever it was enqueued.
C19_FirstByID ==
    OwnerSelected =>
        /\ Len(drv.rootHandles) = 1
        /\ KeyOf(drv.rootHandles[1]) \in UnfinishedOf(drv.store0, drv.req.owner)
        /\ drv.rootHandles[1] = drv.store0[KeyOf(drv.rootHandles[1])]
        /\ \A k \in UnfinishedOf(drv.store0, drv.req.owner) :
              k = KeyOf(drv.rootHandles[1]) \/ LexLess(drv.rootHandles[1].TwitterID, k[2])

\* The owner's Job "10" was enqueued after the Job "2" and is selected.
C19_Witness ==
    /\ OwnerSelected
    /\ Cardinality(UnfinishedOf(drv.store0, drv.req.owner)) = 2
    /\ drv.rootHandles[1].TwitterID = <<1, 0>>
    /\ drv.rootHandles[1].Created = 2

\* C20: with an exact address that names no stored Job the invocation ends
\* with a not-found error, runs no tick and writes nothing to the store.
C20_NotFound ==
    (drv.req.mode = "exact" /\ <<drv.req.owner, drv.req.id>> \notin DOMAIN drv.store0) =>
        /\ drv.pc = "end"
        /\ drv.resp = "worker error: NotFound"
        /\ drv.rootHandles = << >>
        /\ drv.outcomes = << >>
        /\ drv.writes = 0
        /\ drv.calls = 0
        /\ jobs = drv.store0

\* The owner has another Job, but not the one addressed.
C20_Witness ==
    /\ drv.req.mode = "exact"
    /\ drv.pc = "end"
    /\ <<drv.req.owner, drv.req.id>> \notin DOMAIN jobs
    /\ \E k \in DOMAIN jobs : k[1] = drv.req.owner


(***************************************************************************)
(* DeleteSpec: deleteHandleHandler on a Job whose two ID lists have been   *)
(* paged in, with no worker invocation under way.  A delete that failed    *)
(* may be requested again.                                                 *)
(***************************************************************************)
\* The numbers of FetchedHandle documents under the Job.
DeleteCounts == {0, 1, 2, 499, 500, 501, 1000, 1001}

\* The follower IDs of the root, in the order upstream returned them.
DeleteIDs(n) == [i \in 1..n |-> 9 + i]

\* The Job after its last page tick: every returned ID has its
\* FetchedHandle, both cursors are 0.
DeleteJob(w) ==
    LET ids == IF w.followers = << >> THEN << >>
               ELSE [i \in 1..Len(w.followers[1]) |-> FormatInt(w.followers[1][i])]
        user == [IDStr |-> FormatInt(w.rootID),
                 ScreenName |-> UsersShow(w.rootID).ScreenName,
                 FriendsCount |-> UsersShow(w.rootID).FriendsCount,
                 FollowersCount |-> UsersShow(w.rootID).FollowersCount,
                 Description |-> GoString(ProfileDescription(w, w.rootID))]
        created == newRootHandle(user)
    IN  [root |-> [created EXCEPT !.Node.FollowerIDs = ids,
                                  !.FollowersCursor = 0,
                                  !.FriendsCursor = 0,
                                  !.Status = Msg("Fetched %v friend IDs", 0, "")],
         fetched |-> [id \in Range(ids) |->
                         newFetchedHandle("Follower", created.Node.TwitterID, id)]]

DeleteInit ==
    /\ enq = EnqueueAnswer("")
    /\ \E n \in DeleteCounts :
          world = [rootID |-> 9, followers |-> OnePage(DeleteIDs(n)), friends |-> << >>,
                   descriptions |-> << >>]
    /\ root = DeleteJob(world).root
    /\ fetched = DeleteJob(world).fetched
    /\ blob = NoBlob
    /\ tick = [t \in Procs |-> IdleTick]
    /\ budget \in 0..MaxFail
    /\ observing = FALSE
    /\ msgs = <<>>
    /\ fcalls = <<>>
    /\ hydrations = <<>>
    /\ jobs = << >>
    /\ drv = IdleDriver
    /\ del = IdleDelete

DeleteNext == DeleteLoad \/ DeleteBatch \/ DeleteRest \/ DeleteRoot

DeleteSpec == DeleteInit /\ [][DeleteNext]_vars

\* C13: deleteRootHandle removes every FetchedHandle of the Job before the
\* RootHandle: while a FetchedHandle exists the RootHandle exists, and when
\* the delete has returned success neither the RootHandle nor any
\* FetchedHandle exists, also with more than 500 FetchedHandles.
C13_ChildrenBeforeJob ==
    /\ DOMAIN fetched # {} => root # NoJob
    /\ (del.pc = "end" /\ del.resp = "OK") => (root = NoJob /\ DOMAIN fetched = {})
    /\ del.pc = "root" => DOMAIN fetched = {}

\* A Job with 1001 FetchedHandles was deleted in three batches.
C13_Witness ==
    /\ Len(world.followers) = 1
    /\ Len(world.followers[1]) = 1001
    /\ del.pc = "end"
    /\ del.resp = "OK"
    /\ Len(del.commits) = 3
    /\ root = NoJob
    /\ DOMAIN fetched = {}


(***************************************************************************)
(* GraphSpec: the build tick on a Job whose FetchedHandles are all         *)
(* hydrated, for every choice of the ID lists upstream returned for the    *)
(* root and (inline) for its friends and followers.                        *)
(***************************************************************************)
\* The friend or follower IDs of the root.
GraphRootLists == {<< >>, <<2>>, <<3>>, <<2, 3>>, <<3, 3>>}

\* The friend or follower IDs attached to a FetchedHandle.
GraphChildLists == {<< >>, <<9>>, <<4>>, <<3, 4>>, <<2, 2>>}

FormatList(ids) == [i \in 1..Len(ids) |-> FormatInt(ids[i])]

\* The hydrated FetchedHandle of id with the ID lists attached.
GraphChild(relationship, parentID, id, friendIDs, followerIDs) ==
    LET created == newFetchedHandle(relationship, parentID, id)
        twitterUser == [IDStr |-> id, ScreenName |-> "u",
                        FriendsCount |-> Len(friendIDs),
                        FollowersCount |-> Len(followerIDs),
                        Description |-> << >>]
    IN  hydrateHandle(twitterUser,
                      [created EXCEPT !.Node.FriendIDs = FormatList(friendIDs),
                                      !.Node.FollowerIDs = FormatList(followerIDs)])

\* The Job after its last hydration tick.
GraphJob(w) ==
    LET user == [IDStr |-> FormatInt(w.rootID),
                 ScreenName |-> UsersShow(w.rootID).ScreenName,
                 FriendsCount |-> UsersShow(w.rootID).FriendsCount,
                 FollowersCount |-> UsersShow(w.rootID).FollowersCount,
                 Description |-> GoString(ProfileDescription(w, w.rootID))]
        friendIDs == IF w.friends = << >> THEN << >> ELSE FormatList(w.friends[1])
        followerIDs == IF w.followers = << >> THEN << >> ELSE FormatList(w.followers[1])
    IN  PreparingRootHandle([newRootHandle(user) EXCEPT !.Node.FriendIDs = friendIDs,
                                                        !.Node.FollowerIDs = followerIDs,
                                                        !.FollowersCursor = 0,
                                                        !.FriendsCursor = 0])

GraphInit ==
    /\ enq = EnqueueAnswer("")
    /\ \E fr \in GraphRootLists, fo \in GraphRootLists :
          world = [rootID |-> 9, followers |-> OnePage(fo), friends |-> OnePage(fr),
                   descriptions |-> << >>]
    /\ root = GraphJob(world)
    /\ \E lists \in [Range(root.Node.FriendIDs) \cup Range(root.Node.FollowerIDs)
                       -> GraphChildLists \X GraphChildLists] :
          fetched = [id \in DOMAIN lists |->
                        GraphChild(IF id \in Range(root.Node.FriendIDs) THEN "Friend"
                                   ELSE "Follower",
                                   root.Node.TwitterID, id, lists[id][1], lists[id][2])]
    /\ blob = NoBlob
    /\ tick = [t \in Procs |-> IdleTick]
    /\ budget \in 0..1
    /\ observing = FALSE
    /\ msgs = <<>>
    /\ fcalls = <<>>
    /\ hydrations = <<>>
    /\ jobs = << >>
    /\ drv = IdleDriver
    /\ del = IdleDelete

GraphNext == WorkerLoad("t1") \/ TickBuild("t1") \/ WorkerError("t1")

GraphSpec == GraphInit /\ [][GraphNext]_vars

\* The nodes buildGephiFile is given: the root and the hydrated FetchedHandles.
GraphAvailable == {root.Node} \cup {fetched[id].Node : id \in DoneJobs(fetched)}

GraphValid ==
    {root.Node.TwitterID} \cup Range(root.Node.FriendIDs) \cup Range(root.Node.FollowerIDs)

\* The pairs (source, target) of the edge records of the stored graph.
GraphPairs == {<<r.source, r.target>> : r \in DOMAIN blob.edges}

\* C14: the exported edges are exactly the pairs (n, f) for the valid f in
\* the friend IDs of an available node n and (g, n) for the valid g in its
\* follower IDs, the valid IDs being the root and the root's friend and
\* follower IDs; no edge mentions an ID outside the valid IDs.
C14_ExportedEdges ==
    blob # NoBlob =>
        /\ GraphPairs =
              UNION {{<<n.TwitterID, f>> : f \in Range(n.FriendIDs) \cap GraphValid}
                        \cup {<<g, n.TwitterID>> : g \in Range(n.FollowerIDs) \cap GraphValid} :
                     n \in GraphAvailable}
        /\ \A p \in GraphPairs : p[1] \in GraphValid /\ p[2] \in GraphValid

\* The root has the friend IDs [2, 3] and the follower IDs [3], a
\* FetchedHandle lists the ID 4, and the graph holds root->2, root->3 and
\* 3->root only.
C14_Witness ==
    /\ root.Node.FriendIDs = <<<<2>>, <<3>>>>
    /\ root.Node.FollowerIDs = <<<<3>>>>
    /\ \E id \in DOMAIN fetched : <<4>> \in Range(fetched[id].Node.FriendIDs)
    /\ blob # NoBlob
    /\ GraphPairs = {<<<<9>>, <<2>>>>, <<<<9>>, <<3>>>>, <<<<3>>, <<9>>>>}

\* C15: the exported file holds each ordered pair (source, target) at most
\* once, however often the edge was discovered.
C15_EdgesOnce ==
    blob # NoBlob => \A r \in DOMAIN blob.edges : blob.edges[r] = 1

\* The edge root->2 was found in the root's friend IDs and in the follower
\* IDs of 2, and the ID 3 is repeated inside the root's follower IDs.
C15_Witness ==
    /\ blob # NoBlob
    /\ <<2>> \in Range(root.Node.FriendIDs)
    /\ <<2>> \in DOMAIN fetched
    /\ <<9>> \in Range(fetched[<<2>>].Node.FollowerIDs)
    /\ root.Node.FollowerIDs = <<<<3>>, <<3>>>>
    /\ [source |-> <<9>>, target |-> <<2>>] \in DOMAIN blob.edges
    /\ [source |-> <<3>>, target |-> <<9>>] \in DOMAIN blob.edges


(***************************************************************************)
(* DescSpec: serialized ticks of a Job whose root and whose one follower   *)
(* have profile descriptions of lengths around the limit, in ASCII and     *)
(* with characters of two bytes.                                           *)
(***************************************************************************)
Run(c, n) == [char |-> c, n |-> n]

\* "a" and "e" with an acute accent.
CharA == 97
CharEAcute == 233

DescTexts ==
    {<< >>,
     <<Run(CharA, 1)>>, <<Run(CharA, 499)>>, <<Run(CharA, 500)>>, <<Run(CharA, 501)>>,
     <<Run(CharEAcute, 250)>>, <<Run(CharEAcute, 251)>>,
     <<Run(CharEAcute, 1), Run(CharA, 498)>>, <<Run(CharEAcute, 1), Run(CharA, 500)>>,
     <<Run(CharA, 499), Run(CharEAcute, 1), Run(CharA, 5)>>}

DescWorlds ==
    {[rootID |-> 9, followers |-> << <<1>> >>, friends |-> << >>,
      descriptions |-> (9 :> d9) @@ (1 :> d1)] : d9 \in DescTexts, d1 \in DescTexts}

DescInit ==
    /\ InitStore
    /\ world \in DescWorlds
    /\ budget \in {0, 1}
    /\ observing = FALSE

DescSpec == DescInit /\ [][SerialNext]_vars

\* The number of characters of a text.
RECURSIVE TextLen(_)
TextLen(text) == IF text = << >> THEN 0 ELSE Head(text).n + TextLen(Tail(text))

\* The first k characters of a text.
RECURSIVE FirstCharacters(_, _)
FirstCharacters(text, k) ==
    IF text = << >> \/ k = 0 THEN << >>
    ELSE IF Head(text).n >= k THEN <<Run(Head(text).char, k)>>
    ELSE <<Head(text)>> \o FirstCharacters(Tail(text), k - Head(text).n)

\* The number of characters that begin in a Go string: the bytes that are
\* no continuation bytes.
Characters(s) == Cardinality({i \in 1..Len(s) : s[i] \notin 128..191})

\* The stored description is that of the profile, cut to 500 characters.
StoredDescription(s, text) ==
    /\ Characters(s) <= 500
    /\ TextLen(text) > 500 => s = GoString(FirstCharacters(text, 500))

\* C16: a description stored in the root node of a Job or in the node of a
\* hydrated FetchedHandle has at most 500 characters, and a profile
\* description of more than 500 characters is stored as its first 500
\* characters.
C16_FirstCharacters ==
    /\ root # NoJob =>
          StoredDescription(root.Node.Description, ProfileDescription(world, world.rootID))
    /\ \A id \in DOMAIN fetched :
          fetched[id].Node.Done =>
              StoredDescription(fetched[id].Node.Description,
                                ProfileDescription(world, ParseInt(id).val))


(***************************************************************************)
(* DoneTickSpec: serialized ticks, and runTick called with a RootHandle    *)
(* that was loaded with Node.Done set (workerHandler never makes that      *)
(* call: it answers "User done" for a done Job and selects no done Job).   *)
(***************************************************************************)
\* A caller loads the stored RootHandle of a done Job and calls runTick.
LoadDone(t) ==
    /\ tick[t].pc = "idle"
    /\ root # NoJob
    /\ root.Node.Done
    /\ tick' = [tick EXCEPT ![t] = [IdleTick EXCEPT !.pc = "run", !.loaded = root, !.rh = root]]
    /\ UNCHANGED <<enq, del, jobs, drv, world, root, fetched, blob, budget, observing, msgs,
                   fcalls, hydrations>>

\* runTick without its first test: a done RootHandle has both cursors 0 and
\* Remaining 0, the transaction finds no FetchedHandle left and saves the
\* RootHandle with PrepareGraph set.
TickDoneUntested(t) ==
    /\ tick[t].pc = "run"
    /\ tick[t].rh.Node.Done
    /\ root' = PreparingRootHandle(tick[t].rh)
    /\ Returns(t, Msg("Preparing graph", 0, ""))
    /\ UNCHANGED <<enq, del, jobs, drv, world, fetched, blob, budget, observing, fcalls, hydrations>>

\* runTick, Node.Done: the tick returns the error "User was already done".
TickDone(t) ==
    /\ tick[t].pc = "run"
    /\ tick[t].rh.Node.Done
    /\ tick' = [tick EXCEPT ![t].pc = "failed", ![t].err = "User was already done"]
    /\ UNCHANGED <<enq, del, jobs, drv, world, root, fetched, blob, budget, observing, msgs,
                   fcalls, hydrations>>

DoneTickNext == SerialNext \/ LoadDone("t1") \/ TickDone("t1")

DoneTickSpec == SerialInit /\ [][DoneTickNext]_vars

\* C17: a tick on a RootHandle loaded with Node.Done set fails with the
\* already-done error; it makes no upstream call, writes no blob and leaves
\* the cursors, Remaining, PrepareGraph and Node.Done of the Job as stored.
C17_DoneTickFails ==
    [][\A t \in Procs :
          (tick[t].pc = "run" /\ tick[t].loaded.Node.Done) =>
              /\ tick'[t].pc = "failed"
              /\ tick'[t].err = "User was already done"
              /\ tick'[t].ncalls = 0
              /\ fcalls' = fcalls
              /\ blob' = blob
              /\ fetched' = fetched
              /\ root' = root]_vars

\* The tick on a done Job has returned its error; the graph is stored.
C17_Witness ==
    /\ root # NoJob
    /\ root.Node.Done
    /\ blob # NoBlob
    /\ tick["t1"].pc = "failed"
    /\ tick["t1"].err = "User was already done"
    /\ tick["t1"].loaded.Node.Done


(***************************************************************************)
(* C21: a FetchedHandle is created with Done = FALSE and its Done flag     *)
(* changes only from FALSE to TRUE: in every execution, overlapping ticks  *)
(* of one RootHandle included, a FetchedHandle that is hydrated stays in   *)
(* the store and stays hydrated.                                           *)
(***************************************************************************)
C21_HydratedStaysHydrated ==
    [][\A id \in DOMAIN fetched :
          fetched[id].Node.Done =>
              /\ id \in DOMAIN fetched'
              /\ fetched'[id].Node.Done]_vars


(***************************************************************************)
(* BranchSpec: the overlapping invocations of Spec, and runTick called     *)
(* with a done RootHandle, so that every branch of runTick is taken.  With *)
(* overlapping invocations a RootHandle is loaded in states serialized     *)
(* ticks never store, PrepareGraph set with a cursor other than 0 among    *)
(* them.                                                                   *)
(***************************************************************************)
BranchNext == Next \/ \E t \in Procs : LoadDone(t) \/ TickDone(t)

BranchSpec == Init /\ [][BranchNext]_vars

\* The branch the order of the tests selects for a loaded RootHandle.
FirstMatch(rootHandle) ==
    IF rootHandle.Node.Done THEN "done"
    ELSE IF rootHandle.PrepareGraph THEN "build"
    ELSE IF rootHandle.FollowersCursor # 0 THEN "followers"
    ELSE IF rootHandle.FriendsCursor # 0 THEN "friends"
    ELSE IF rootHandle.Remaining = -1 THEN "count"
    ELSE "hydrate"

\* What a step of invocation t out of the entry of runTick did, told from
\* its effects.
RanDone(t) ==
    /\ tick'[t].pc = "failed"
    /\ tick'[t].err = "User was already done"
    /\ UNCHANGED <<root, fetched, blob>>

RanBuild(t) ==
    /\ tick'[t] = IdleTick
    /\ blob' # NoBlob
    /\ root'.Node.Done
    /\ UNCHANGED fetched

RanPage(t, call) ==
    /\ tick'[t].pc \in {"batch", "save"}
    /\ tick'[t].acalls = <<call>>
    /\ tick'[t].ncalls = 1
    /\ UNCHANGED <<root, fetched, blob>>

RanCount(t) ==
    /\ tick'[t] = IdleTick
    /\ root'.Status.text = "Enqueued %v handles"
    /\ root'.Remaining # -1
    /\ ~root'.Node.Done
    /\ UNCHANGED <<fetched, blob>>

RanHydrate(t) ==
    /\ tick'[t].pc \in {"fetch", "commit"}
    /\ tick'[t].att = 1
    /\ tick'[t].ncalls = 0
    /\ UNCHANGED <<root, fetched, blob>>

(***************************************************************************)
(* C22: a call of runTick executes the one branch selected by the first    *)
(* matching test in the order Done, PrepareGraph, FollowersCursor # 0,     *)
(* FriendsCursor # 0, Remaining = -1, otherwise hydration; a RootHandle    *)
(* with PrepareGraph set and a cursor other than 0 runs the build branch   *)
(* and fetches no page.                                                    *)
(***************************************************************************)
C22_FirstMatchingBranch ==
    [][\A t \in Procs :
          (tick[t].pc = "run" /\ tick'[t] # tick[t]) =>
              LET branch == FirstMatch(tick[t].rh)
              IN  /\ branch = "done" <=> RanDone(t)
                  /\ branch = "build" <=> RanBuild(t)
                  /\ branch = "followers" <=> RanPage(t, "followers/ids")
                  /\ branch = "friends" <=> RanPage(t, "friends/ids")
                  /\ branch = "count" <=> RanCount(t)
                  /\ branch = "hydrate" <=> RanHydrate(t)]_vars

\* C22, reached: the RootHandle was loaded with PrepareGraph set and a
\* cursor other than 0, and the tick built the graph.
C22_Witness ==
    /\ root # NoJob
    /\ root.Node.Done
    /\ blob # NoBlob
    /\ root.FollowersCursor # 0 \/ root.FriendsCursor # 0


(***************************************************************************)
(* C23: with serialized ticks the stored RootHandle always satisfies:      *)
(* PrepareGraph implies both cursors 0, Remaining 0 and not Done; Done     *)
(* implies PrepareGraph false and both cursors 0; Remaining other than -1  *)
(* implies both cursors 0.                                                 *)
(***************************************************************************)
C23_PhaseFields ==
    root # NoJob =>
        /\ root.PrepareGraph =>
              /\ root.FollowersCursor = 0
              /\ root.FriendsCursor = 0
              /\ root.Remaining = 0
              /\ ~root.Node.Done
        /\ root.Node.Done =>
              /\ ~root.PrepareGraph
              /\ root.FollowersCursor = 0
              /\ root.FriendsCursor = 0
        /\ root.Remaining # -1 =>
              /\ root.FollowersCursor = 0
              /\ root.FriendsCursor = 0

\* C23, reached: a RootHandle that went through counting, hydration of a
\* FetchedHandle and PrepareGraph, and is done.
C23_Witness ==
    /\ root # NoJob
    /\ root.Node.Done
    /\ root.Node.FollowerIDs # <<>>
    /\ \E i \in 1..Len(msgs) : msgs[i].text = "Preparing graph"
    /\ \E id \in DOMAIN fetched : fetched[id].Node.Done


(***************************************************************************)
(* C24: Done is stored only after the graph was written: a stored          *)
(* RootHandle that is done has its graph object in the bucket; the save    *)
(* that sets Done is the one that clears Status and PrepareGraph; when the *)
(* build branch fails, the RootHandle stays stored with PrepareGraph set   *)
(* and Done false.                                                         *)
(***************************************************************************)
C24_DoneAfterGraph ==
    /\ [](root # NoJob /\ root.Node.Done => blob # NoBlob)
    /\ [][/\ (root' # NoJob /\ root'.Node.Done /\ ~(root # NoJob /\ root.Node.Done)) =>
                /\ blob' # NoBlob
                /\ root'.Status = NoStatus
                /\ ~root'.PrepareGraph
          /\ \A t \in Procs :
                (/\ tick[t].pc = "run"
                 /\ tick[t].rh.PrepareGraph
                 /\ tick'[t].pc = "failed") =>
                    /\ root' = root
                    /\ root.PrepareGraph
                    /\ ~root.Node.Done]_vars

\* C24, reached: the build branch wrote the graph and its save stored the
\* RootHandle done, after an earlier failure.
C24_Witness ==
    /\ root # NoJob
    /\ root.Node.Done
    /\ ~root.PrepareGraph
    /\ root.Status = NoStatus
    /\ blob # NoBlob
    /\ budget < MaxFail
    /\ Len(msgs) > 0
    /\ msgs[Len(msgs)].text = "Graph built"


\* The upstream page a page tick of the loaded RootHandle asks for: the
\* IDs as strings, and next_cursor.
UpstreamPage(pages, cursor) ==
    [ids |-> FormatList(IDsPage(pages, cursor).IDs),
     next |-> IDsPage(pages, cursor).NextCursor]

\* id has a fresh FetchedHandle of the root with the tag.
FreshHandle(docs, id, tag, parentID) ==
    /\ id \in DOMAIN docs
    /\ docs[id].ParentID = parentID
    /\ docs[id].Node.TwitterID = id
    /\ docs[id].Node.Relationship = tag
    /\ ~docs[id].Node.Done

(***************************************************************************)
(* C25: a successful follower-page tick leaves a FetchedHandle for every   *)
(* returned ID (tag "Follower", not hydrated, ParentID the root's ID),     *)
(* appends exactly the returned IDs to the stored FollowerIDs and stores   *)
(* the returned next cursor (0 when the list is exhausted); FriendsCursor, *)
(* the FriendIDs, Remaining, PrepareGraph and Done are unchanged.  The     *)
(* friend-page tick does the same with the tag "Friend" and the friend     *)
(* fields.  No FetchedHandle of another ID is written.                     *)
(***************************************************************************)
C25_PageTick ==
    [][\A t \in Procs :
          LET before == tick[t].loaded
              isFollowers == before.FollowersCursor # 0
              page == IF isFollowers
                      THEN UpstreamPage(FollowerPages(world, world.rootID),
                                        before.FollowersCursor)
                      ELSE UpstreamPage(FriendPages(world, world.rootID),
                                        before.FriendsCursor)
              tag == IF isFollowers THEN "Follower" ELSE "Friend"
          IN  /\ tick[t].pc = "batch" =>
                    \A id \in DOMAIN fetched' \ Range(page.ids) :
                        id \in DOMAIN fetched /\ fetched'[id] = fetched[id]
              /\ (tick[t].pc = "save" /\ tick'[t].pc = "idle") =>
                    /\ before = root
                    /\ \A i \in 1..Len(page.ids) :
                          FreshHandle(fetched', page.ids[i], tag, before.Node.TwitterID)
                    /\ IF isFollowers
                       THEN /\ root'.Node.FollowerIDs = before.Node.FollowerIDs \o page.ids
                            /\ root'.FollowersCursor = page.next
                            /\ root'.Node.FriendIDs = before.Node.FriendIDs
                            /\ root'.FriendsCursor = before.FriendsCursor
                       ELSE /\ root'.Node.FriendIDs = before.Node.FriendIDs \o page.ids
                            /\ root'.FriendsCursor = page.next
                            /\ root'.Node.FollowerIDs = before.Node.FollowerIDs
                            /\ root'.FollowersCursor = before.FollowersCursor
                    /\ root'.Remaining = before.Remaining
                    /\ root'.PrepareGraph = before.PrepareGraph
                    /\ root'.Node.Done = before.Node.Done]_vars

\* C25, reached: the last friend page was saved, and an account that is
\* also a follower has its FetchedHandle tagged "Friend".
C25_Witness ==
    /\ root # NoJob
    /\ root.Status.text = "Fetched %v friend IDs"
    /\ root.Status.n > 0
    /\ root.FriendsCursor = 0
    /\ root.Remaining = -1
    /\ \E id \in Range(root.Node.FriendIDs) \cap Range(root.Node.FollowerIDs) :
          FreshHandle(fetched, id, "Friend", root.Node.TwitterID)


(***************************************************************************)
(* PageSpec: the pagination and counting ticks of one RootHandle, by two   *)
(* overlapping invocations, any call failing (MaxFail failures at most).   *)
(***************************************************************************)
\* followers on two pages and friends on two pages
WorldFriendPages ==
    [rootID |-> 9, followers |-> << <<1>>, <<2>> >>, friends |-> << <<2>>, <<3>> >>,
     descriptions |-> << >>]

PageWorlds == {WorldTwoPages, WorldFriendPages, WorldRepeat}

PageInit ==
    /\ InitStore
    /\ world \in PageWorlds
    /\ budget = MaxFail
    /\ observing = FALSE

PageStep(t) ==
    \/ WorkerLoad(t)
    \/ PageFetch(t)
    \/ NewFetchedBatch(t)
    \/ SaveRoot(t)
    \/ TickCount(t)
    \/ WorkerError(t)

PageNext == Enqueue \/ \E t \in Procs : PageStep(t)

PageSpec == PageInit /\ [][PageNext]_vars

\* The IDs of the first n pages, as strings, in order.
RECURSIVE FirstPages(_, _)
FirstPages(pages, n) ==
    IF n = 0 THEN <<>> ELSE FirstPages(pages, n - 1) \o FormatList(pages[n])

\* The IDs of the upstream pages that come before the cursor: none before
\* -1, all of them before 0.
PagesBefore(pages, cursor) ==
    FirstPages(pages, IF cursor = 0 THEN Len(pages)
                      ELSE IF cursor = -1 THEN 0 ELSE cursor - 1)

(***************************************************************************)
(* C26: no page is counted twice.  After any sequence of pagination ticks, *)
(* failed and retried or overlapping, the stored FollowerIDs are the       *)
(* upstream pages that come before the stored cursor, in order and each    *)
(* once, and so are the stored FriendIDs: when the cursor is 0 the list is *)
(* the concatenation of all the upstream pages.                            *)
(***************************************************************************)
C26_PagesOnce ==
    root # NoJob =>
        /\ root.Node.FollowerIDs =
              PagesBefore(FollowerPages(world, world.rootID), root.FollowersCursor)
        /\ root.Node.FriendIDs =
              PagesBefore(FriendPages(world, world.rootID), root.FriendsCursor)

\* C26, reached: both lists are complete after failed calls, while an
\* invocation that loaded the RootHandle before its first page was saved,
\* and has fetched that page again, is still to save.
C26_Witness ==
    /\ root # NoJob
    /\ root.FollowersCursor = 0
    /\ root.FriendsCursor = 0
    /\ Len(root.Node.FollowerIDs) > 1
    /\ budget < MaxFail
    /\ \E t \in Procs :
          /\ tick[t].pc = "save"
          /\ tick[t].loaded.FollowersCursor = -1


(***************************************************************************)
(* C27: a hydration tick whose query finds no unhydrated FetchedHandle     *)
(* stores, in its transaction, the RootHandle with PrepareGraph set,       *)
(* Remaining 0 and the status "Preparing graph" (nothing else changed),    *)
(* returns "Preparing graph", makes no upstream call and changes no        *)
(* FetchedHandle.                                                          *)
(***************************************************************************)
C27_PreparingGraph ==
    [][\A t \in Procs :
          (/\ tick[t].pc = "commit"
           /\ tick[t].txDoc = NoHandle
           /\ tick'[t].pc = "idle") =>
              /\ root' = [root EXCEPT !.PrepareGraph = TRUE,
                                      !.Remaining = 0,
                                      !.Status = Msg("Preparing graph", 0, "")]
              /\ msgs' = Append(msgs, Msg("Preparing graph", 0, ""))
              /\ tick[t].ncalls = 0
              /\ UNCHANGED <<fetched, fcalls, hydrations, blob>>]_vars

\* C27, reached: every FetchedHandle is hydrated and the tick that found
\* none left has stored PrepareGraph.
C27_Witness ==
    /\ root # NoJob
    /\ root.PrepareGraph
    /\ root.Remaining = 0
    /\ root.Status = Msg("Preparing graph", 0, "")
    /\ DOMAIN fetched # {}
    /\ Unfinished(fetched) = {}
    /\ Len(msgs) > 0
    /\ msgs[Len(msgs)].text = "Preparing graph"
    /\ tick["t1"].pc = "idle"


\* The API error code of the lookup of the account a FetchedHandle is for
\* (0 when the lookup succeeds).
LookupCode(fetchedHandle) == UsersShow(ParseInt(fetchedHandle.Node.TwitterID).val).code

(***************************************************************************)
(* C28: the lookup of a suspended or deleted account does not fail the     *)
(* hydration tick: the FetchedHandle is stored hydrated with counts 0,     *)
(* the placeholder name ("SUSPENDED" or "NOT FOUND") and no IDs, Remaining *)
(* is decremented and no ID page is fetched.  An upstream error that is    *)
(* not permanent fails the tick: the FetchedHandle stays unhydrated and    *)
(* Remaining is unchanged, also after the failure was reported.            *)
(***************************************************************************)
C28_PermanentAndTransient ==
    [][\A t \in Procs :
          /\ (/\ tick[t].pc = "commit"
              /\ tick[t].txDoc # NoHandle
              /\ LookupCode(tick[t].txDoc) \in {CodeSuspended, CodeNotFound}
              /\ tick'[t].pc = "idle") =>
                 LET id == tick[t].txDoc.Node.TwitterID
                     name == IF LookupCode(tick[t].txDoc) = CodeSuspended
                             THEN "SUSPENDED" ELSE "NOT FOUND"
                 IN  /\ fetched'[id].Node.Done
                     /\ fetched'[id].Node.ScreenName = name
                     /\ fetched'[id].Node.FriendsCount = 0
                     /\ fetched'[id].Node.FollowersCount = 0
                     /\ fetched'[id].Node.FriendIDs = <<>>
                     /\ fetched'[id].Node.FollowerIDs = <<>>
                     /\ root'.Remaining = root.Remaining - 1
                     /\ tick[t].acalls = <<"users/show">>
                     /\ msgs' = Append(msgs, Msg("Fetched %v", 0, name))
          /\ (/\ tick[t].txDoc # NoHandle
              /\ \/ tick[t].pc = "fetch" /\ tick'[t].pc = "failed"
                 \/ /\ tick[t].pc = "failed"
                    /\ tick[t].err = "upstream"
                    /\ tick'[t].pc = "idle") =>
                 LET id == tick[t].txDoc.Node.TwitterID
                 IN  /\ tick'[t].pc = "failed" => tick'[t].err = "upstream"
                     /\ fetched' = fetched
                     /\ ~fetched[id].Node.Done
                     /\ root'.Remaining = root.Remaining
                     /\ msgs' = msgs]_vars

\* C28, reached: a suspended account and a deleted account are stored
\* hydrated under their placeholder names, after an upstream call failed.
C28_Witness ==
    /\ \E id \in DOMAIN fetched :
          /\ fetched[id].Node.Done
          /\ fetched[id].Node.ScreenName = "SUSPENDED"
    /\ \E id \in DOMAIN fetched :
          /\ fetched[id].Node.Done
          /\ fetched[id].Node.ScreenName = "NOT FOUND"
    /\ budget < MaxFail
    /\ \E i \in 1..Len(msgs) : msgs[i] = Msg("Fetched %v", 0, "SUSPENDED")


\* Invocation t takes a step of the hydration branch of its tick.
HydrationTickStep(t) ==
    /\ tick'[t] # tick[t]
    /\ \/ tick[t].pc \in {"tx", "fetch", "commit"}
       \/ tick[t].pc = "run" /\ FirstMatch(tick[t].rh) = "hydrate"

(***************************************************************************)
(* C29: a hydration tick changes only the FetchedHandle it selected and    *)
(* the RootHandle, of which only Status and Remaining; it creates no       *)
(* FetchedHandle: the set of FetchedHandle IDs is the same before and      *)
(* after, and the IDs attached to the hydrated handle get no FetchedHandle.*)
(***************************************************************************)
C29_HydrationFrame ==
    [][\A t \in Procs :
          HydrationTickStep(t) =>
              /\ DOMAIN fetched' = DOMAIN fetched
              /\ \A id \in DOMAIN fetched :
                    fetched'[id] # fetched[id] =>
                        /\ tick[t].pc = "commit"
                        /\ tick[t].txDoc # NoHandle
                        /\ id = tick[t].txDoc.Node.TwitterID
              /\ (root' # root /\ tick[t].txDoc # NoHandle) =>
                    /\ tick[t].pc = "commit"
                    /\ root' = [root EXCEPT !.Status = root'.Status,
                                            !.Remaining = root'.Remaining]
              /\ UNCHANGED <<blob, jobs>>]_vars

\* C29, reached: a FetchedHandle is stored hydrated with an ID attached
\* that has no FetchedHandle.
C29_Witness ==
    \E id \in DOMAIN fetched :
        /\ fetched[id].Node.Done
        /\ \E other \in Range(fetched[id].Node.FriendIDs)
                          \cup Range(fetched[id].Node.FollowerIDs) :
              other \notin DOMAIN fetched


(***************************************************************************)
(* InlineSpec: serialized ticks on a root whose friends and followers have *)
(* friend counts 0, 1, InlineCeiling and InlineCeiling + 1 and follower    *)
(* counts 0, 1 and 2.                                                      *)
(***************************************************************************)
WorldInline ==
    [rootID |-> 9, followers |-> << <<1, 2, 5>> >>, friends |-> << <<4>> >>,
     descriptions |-> << >>]

InlineInit ==
    /\ InitStore
    /\ world = WorldInline
    /\ budget \in {0, 1}
    /\ observing = TRUE

InlineSpec == InlineInit /\ [][SerialNext]_vars

\* How many times the call was made.
CallCount(calls, call) == Cardinality({i \in 1..Len(calls) : calls[i] = call})

\* Whether a page of the list is attached for the count.
Attached(count) == 1 <= count /\ count <= 5000

RaceWorlds == {WorldOnePage, WorldRepeat}

RaceInit ==
    /\ InitStore
    /\ world \in RaceWorlds
    /\ budget \in {0, 1}
    /\ observing = FALSE

RaceNext ==
    \/ Enqueue
    \/ Step("t1")
    \/ DeleteLoad
    \/ DeleteRest
    \/ DeleteRoot

RaceSpec == RaceInit /\ [][RaceNext]_vars

NodeRecords(id) == Cardinality({i \in 1..Len(blob.nodes) : blob.nodes[i].id = id})

\* The IDs attached to the hydrated FetchedHandles.
SecondDegree ==
    UNION {Range(fetched[id].Node.FriendIDs) \cup Range(fetched[id].Node.FollowerIDs) :
           id \in DoneJobs(fetched)}

(***************************************************************************)
(* C32: the export holds exactly one node record for the root and one for  *)
(* each hydrated FetchedHandle, and no node record for any other ID: an ID *)
(* that only appears in the FriendIDs or FollowerIDs of a hydrated         *)
(* FetchedHandle has no node record.                                       *)
(***************************************************************************)
C32_NodeRecords ==
    blob # NoBlob =>
        /\ Len(blob.nodes) = 1 + Cardinality(DoneJobs(fetched))
        /\ blob.nodes[1].id = root.Node.TwitterID
        /\ \A id \in DoneJobs(fetched) \ {root.Node.TwitterID} : NodeRecords(id) = 1
        /\ \A id \in SecondDegree \ (DoneJobs(fetched) \cup {root.Node.TwitterID}) :
              NodeRecords(id) = 0

\* C32, reached: the graph of a root with two hydrated FetchedHandles, one
\* of which lists the ID 4, holds three node records and none for 4.
C32_Witness ==
    /\ blob # NoBlob
    /\ Cardinality(DoneJobs(fetched)) = 2
    /\ Len(blob.nodes) = 3
    /\ <<4>> \in SecondDegree
    /\ NodeRecords(<<4>>) = 0


(***************************************************************************)
(* ExportSpec: buildGephiFile called, any number of times, with the        *)
(* RootHandle and the hydrated FetchedHandles of a store that does not     *)
(* change.  writeEdges ranges over a Go map, whose iteration order is not  *)
(* specified and differs from one range statement to the next: every call  *)
(* writes the edge records in one of the orders of the keys.               *)
(***************************************************************************)
\* The orders in which a range statement may return the keys of the map.
EdgeOrders(edgeSet) ==
    {order \in [1..Cardinality(edgeSet) -> edgeSet] :
        \A i, j \in 1..Cardinality(edgeSet) : i # j => order[i] # order[j]}

\* The files buildGephiFile may return: the node records and the edge
\* records, both in the order written.
GephiFiles(rootHandle, fetchedHandles) ==
    LET m == {rootHandle.Node.TwitterID} \cup Range(rootHandle.Node.FriendIDs)
                 \cup Range(rootHandle.Node.FollowerIDs)
        e == AppendAllEdges(appendEdgeSet({}, m, rootHandle.Node), m, fetchedHandles)
    IN  {[nodes |-> <<writeNode(rootHandle.Node)>>
                      \o [i \in 1..Len(fetchedHandles) |-> writeNode(fetchedHandles[i].Node)],
          edges |-> [i \in 1..Len(order) |-> EdgeRecord(order[i])]] :
         order \in EdgeOrders(e)}

ExportRootLists == {<< >>, <<2>>, <<2, 3>>}

ExportChildLists == {<< >>, <<9>>}

ExportInit ==
    /\ enq = EnqueueAnswer("")
    /\ \E fr \in ExportRootLists, fo \in ExportRootLists :
          world = [rootID |-> 9, followers |-> OnePage(fo), friends |-> OnePage(fr),
                   descriptions |-> << >>]
    /\ root = GraphJob(world)
    /\ \E lists \in [Range(root.Node.FriendIDs) \cup Range(root.Node.FollowerIDs)
                       -> ExportChildLists \X ExportChildLists] :
          fetched = [id \in DOMAIN lists |->
                        GraphChild(IF id \in Range(root.Node.FriendIDs) THEN "Friend"
                                   ELSE "Follower",
                                   root.Node.TwitterID, id, lists[id][1], lists[id][2])]
    /\ blob = NoBlob
    /\ tick = [t \in Procs |-> IdleTick]
    /\ budget = 0
    /\ observing = FALSE
    /\ msgs = <<>>
    /\ fcalls = <<>>
    /\ hydrations = <<>>
    /\ jobs = << >>
    /\ drv = IdleDriver
    /\ del = IdleDelete

\* One call of buildGephiFile; the bytes it returns are kept in blob.
Export ==
    /\ blob' \in GephiFiles(root, getDoneJobs(fetched))
    /\ UNCHANGED <<enq, del, jobs, drv, world, root, fetched, tick, budget, observing, msgs,
                   fcalls, hydrations>>

ExportSpec == ExportInit /\ [][Export]_vars

(***************************************************************************)
(* C33: the exporter is deterministic: two calls of buildGephiFile with    *)
(* the same root node and the same list of child nodes return identical    *)
(* bytes, the same node records and the same edge records in the same      *)
(* order.                                                                  *)
(***************************************************************************)
C33_Deterministic ==
    [][(blob # NoBlob /\ root' = root /\ fetched' = fetched) => blob' = blob]_vars


(***************************************************************************)
(* BatchSpec: a Job whose root has n followers on one page is enqueued,    *)
(* its follower page is fetched and its FetchedHandles are created, and    *)
(* the Job is deleted, one request at a time, for n around the batch       *)
(* limit.                                                                  *)
(***************************************************************************)
BatchCounts == {0, 1, 500, 501, 1000}

BatchInit ==
    /\ InitStore
    /\ \E n \in BatchCounts :
          world = [rootID |-> 9, followers |-> OnePage(DeleteIDs(n)), friends |-> << >>,
                   descriptions |-> << >>]
    /\ budget \in {0, 1}
    /\ observing = FALSE

BatchNext ==
    \/ Enqueue
    \/ del.pc \in {"idle", "end"} /\ WorkerLoad("t1")
    \/ PageFetch("t1")
    \/ NewFetchedBatch("t1")
    \/ SaveRoot("t1")
    \/ WorkerError("t1")
    \/ tick["t1"].pc = "idle" /\ DeleteLoad
    \/ DeleteBatch
    \/ DeleteRest
    \/ DeleteRoot

BatchSpec == BatchInit /\ [][BatchNext]_vars

(***************************************************************************)
(* C34: the bulk creation and the bulk deletion of FetchedHandles never    *)
(* commit a batch of more than 500 operations and never an empty one, and  *)
(* every one of the n IDs is written (or deleted) in exactly one committed *)
(* batch, for every n, 0, 500, 501 and 1000 included.                      *)
(***************************************************************************)
C34_Batches ==
    /\ [](/\ tick["t1"].pc = "save" =>
                LET ids == tick["t1"].rh.Node.FollowerIDs
                IN  /\ tick["t1"].pending = <<>>
                    /\ \A i \in 1..tick["t1"].nadded :
                          ids[Len(ids) - tick["t1"].nadded + i] \in DOMAIN fetched
          /\ del.pc = "root" => (del.refs = {} /\ DOMAIN fetched = {})
          /\ \A i \in 1..Len(del.commits) : del.commits[i] \in 1..500)
    /\ [][/\ (tick["t1"].pc = "batch" /\ tick'["t1"].pc \in {"batch", "save"}) =>
                LET pending == tick["t1"].pending
                    ops == Len(pending) - Len(tick'["t1"].pending)
                IN  /\ ops \in 1..500
                    /\ tick'["t1"].pending = SubSeq(pending, ops + 1, Len(pending))
                    /\ DOMAIN fetched' = DOMAIN fetched \cup {pending[i] : i \in 1..ops}
                    /\ \A i \in 1..ops : pending[i] \notin Range(tick'["t1"].pending)
          /\ (del.pc = "iter" /\ del'.pc \in {"iter", "root"}) =>
                LET deleted == DOMAIN fetched \ DOMAIN fetched'
                IN  /\ Cardinality(deleted) <= 500
                    /\ deleted = del.refs \ del'.refs
                    /\ DOMAIN fetched' = DOMAIN fetched \ deleted
                    /\ del'.commits = IF deleted = {} THEN del.commits
                                      ELSE Append(del.commits, Cardinality(deleted))]_vars

\* C34, reached: the 1000 FetchedHandles of a Job, created in two batches,
\* have been deleted in two batches of 500.
C34_Witness ==
    /\ del.pc = "root"
    /\ del.commits = <<500, 500>>
    /\ root # NoJob
    /\ Len(root.Node.FollowerIDs) = 1000
    /\ root.FollowersCursor = 0
    /\ DOMAIN fetched = {}


(***************************************************************************)
(* EnqueueSpec: enqueue requests for the root account arrive at any time   *)
(* in the life of its Job, between the steps of serialized ticks.          *)
(***************************************************************************)
\* DocumentRef.Create replacing a stored document.
CreateReplacing(stored, doc) == [doc |-> doc, err |-> ""]

\* DocumentRef.Create: the document is written when there is none; the call
\* fails and the stored document stays when there is one.
Create(stored, doc) ==
    IF stored = NoJob THEN [doc |-> doc, err |-> ""]
    ELSE [doc |-> stored, err |-> "AlreadyExists"]

\* The account getTwitterUserByName returns for the root's handle.
RootUser ==
    [IDStr |-> FormatInt(world.rootID),
     ScreenName |-> UsersShow(world.rootID).ScreenName,
     FriendsCount |-> UsersShow(world.rootID).FriendsCount,
     FollowersCount |-> UsersShow(world.rootID).FollowersCount,
     Description |-> GoString(ProfileDescription(world, world.rootID))]

\* The enqueue handler from the call of enqueueHandle on: the lookup of the
\* root account, the creation of its RootHandle, and the answer.
EnqueueRequest ==
    /\ \/ \E r \in {Create(root, newRootHandle(RootUser))} :
            /\ root' = r.doc
            /\ enq' = EnqueueAnswer(r.err)
            /\ UNCHANGED budget
       \/ /\ CanFail
          /\ budget' = budget - 1
          /\ enq' = EnqueueAnswer("error")
          /\ UNCHANGED root
    /\ UNCHANGED <<del, jobs, drv, world, fetched, blob, tick, observing, msgs, fcalls,
                   hydrations>>

EnqueueWorlds == {WorldOnePage, WorldRepeat, WorldNobody}

EnqueueInit ==
    /\ InitStore
    /\ world \in EnqueueWorlds
    /\ budget \in {0, 1}
    /\ observing = FALSE

EnqueueNext == EnqueueRequest \/ Step("t1")

EnqueueSpec == EnqueueInit /\ [][EnqueueNext]_vars

(***************************************************************************)
(* C35: an enqueue writes exactly one RootHandle, with FollowersCursor,    *)
(* FriendsCursor and Remaining -1, PrepareGraph and Done false and the     *)
(* Relationship "Root"; an enqueue of a root that the owner already has    *)
(* fails and leaves the stored RootHandle and the FetchedHandles as they   *)
(* were.                                                                   *)
(***************************************************************************)
C35_Enqueue ==
    [][/\ (root = NoJob /\ root' # NoJob) =>
             /\ enq'.code = 200
             /\ root'.FollowersCursor = -1
             /\ root'.FriendsCursor = -1
             /\ root'.Remaining = -1
             /\ ~root'.PrepareGraph
             /\ ~root'.Node.Done
             /\ root'.Node.Relationship = "Root"
             /\ root'.Node.TwitterID = FormatInt(world.rootID)
             /\ UNCHANGED <<fetched, blob>>
       /\ enq' # enq =>
             /\ UNCHANGED <<fetched, blob>>
             /\ root # NoJob => (enq'.code = 500 /\ root' = root)
             /\ root = NoJob => (enq'.code = 200 <=> root' # NoJob)]_vars

\* C35, reached: an enqueue of a root whose Job has finished its pagination
\* and has FetchedHandles was answered with the failure of Create.
C35_Witness ==
    /\ enq = EnqueueAnswer("AlreadyExists")
    /\ root # NoJob
    /\ root.FollowersCursor = 0
    /\ root.FriendsCursor = 0
    /\ DOMAIN fetched # {}


(***************************************************************************)
(* C36: a trigger invocation in a throttled slot, a minute of the hour     *)
(* that is a multiple of ten, selects no Job, runs no tick and makes no    *)
(* store write and no upstream call; every other trigger invocation        *)
(* proceeds to the selection of Jobs.                                      *)
(***************************************************************************)
C36_Throttle ==
    drv.pc # "new" =>
        IF drv.minute % 10 = 0
        THEN /\ drv.pc = "end"
             /\ drv.resp = "Skipping tick"
             /\ drv.req = NoRequest
             /\ drv.rootHandles = << >>
             /\ drv.outcomes = << >>
             /\ drv.writes = 0
             /\ drv.calls = 0
             /\ jobs = drv.store0
        ELSE /\ drv.minute \in 0..59
             /\ drv.req # NoRequest
             /\ drv.resp # "Skipping tick"
             /\ drv.pc = "end" =>
                   \/ drv.resp = "worker error: NotFound"
                   \/ drv.rootHandles = Selection(drv.store0, drv.req).rootHandles

\* C36, reached: the trigger arrived at minute 10 with a Job of some owner
\* not done, and the invocation has ended.
C36_Witness ==
    /\ drv.pc = "end"
    /\ drv.minute = 10
    /\ \E k \in DOMAIN jobs : jobs[k].Phase # "done"


(***************************************************************************)
(* C37: once deleteRootHandle has returned success, the store holds no     *)
(* RootHandle and no FetchedHandle of the Job, also when a tick that       *)
(* loaded the RootHandle before the deletion finishes after it: a          *)
(* pagination, counting or build tick re-creates neither the RootHandle    *)
(* nor FetchedHandles (only a new enqueue creates the Job again).          *)
(***************************************************************************)
C37_DeletedStaysDeleted ==
    [][/\ (del.pc = "root" /\ del'.resp = "OK") =>
             (root' = NoJob /\ DOMAIN fetched' = {})
       /\ (del.pc = "end" /\ del.resp = "OK" /\ root = NoJob) =>
             /\ root' # NoJob => root' = newRootHandle(RootUser)
             /\ DOMAIN fetched' \subseteq DOMAIN fetched]_vars


(***************************************************************************)
(* C38: when the read of the RootHandle inside the hydration transaction   *)
(* fails, by a store error or because the Job was deleted between the load *)
(* and the start of the transaction, the tick ends with a failure that is  *)
(* reported (runTick returns the error to workerHandler), and the          *)
(* transaction writes nothing: no FetchedHandle is hydrated and no         *)
(* RootHandle written.                                                     *)
(***************************************************************************)
C38_RereadFailureReported ==
    [][\A t \in Procs :
          (AtTransaction(t) /\ tick'[t] # tick[t] /\ (root = NoJob \/ budget' < budget)) =>
              /\ tick'[t].pc = "failed"
              /\ tick'[t].err # ""
              /\ UNCHANGED <<root, fetched, blob>>]_vars


(***************************************************************************)
(* ChangeSpec: serialized ticks with failures, while the follower and      *)
(* friend lists of the root account change upstream between the calls.     *)
(***************************************************************************)
ChangeWorlds == {WorldOnePage, WorldRepeat}

\* The lists upstream serves for the root account change.
UpstreamChange ==
    /\ world' \in ChangeWorlds \ {world}
    /\ UNCHANGED <<enq, del, jobs, drv, root, fetched, blob, tick, budget, observing, msgs,
                   fcalls, hydrations>>

ChangeInit ==
    /\ InitStore
    /\ world \in ChangeWorlds
    /\ budget \in {0, 1}
    /\ observing = FALSE

ChangeNext == Enqueue \/ Step("t1") \/ UpstreamChange

ChangeSpec == ChangeInit /\ [][ChangeNext]_vars

(***************************************************************************)
(* C39: when both cursors of the RootHandle are 0, the TwitterIDs of the   *)
(* stored FetchedHandles are exactly the distinct IDs in the stored        *)
(* FriendIDs and FollowerIDs of the root, with serialized ticks and any    *)
(* failures in earlier pagination ticks, a tick whose bulk write succeeded *)
(* and whose save of the RootHandle failed, retried with another page from *)
(* upstream, included.                                                     *)
(***************************************************************************)
C39_ChildrenMatchLists ==
    (root # NoJob /\ root.FollowersCursor = 0 /\ root.FriendsCursor = 0) =>
        DOMAIN fetched = Range(root.Node.FollowerIDs) \cup Range(root.Node.FriendIDs)


(***************************************************************************)
(* C40: in the graph file that the build step writes for a Job taken       *)
(* through enqueue, pagination, counting and hydration by serialized       *)
(* ticks, the source and the target of every edge record have a node       *)
(* record in the same file.                                                *)
(***************************************************************************)
C40_EdgesHaveNodes ==
    blob # NoBlob =>
        \A r \in DOMAIN blob.edges :
            /\ \E i \in 1..Len(blob.nodes) : blob.nodes[i].id = r.source
            /\ \E i \in 1..Len(blob.nodes) : blob.nodes[i].id = r.target

\* C40, reached: the Job of a root with the followers 1 and 2 is done, and
\* its graph holds an edge from the root's follower 2 to the root's follower
\* 1 next to the edges of the root.
C40_Witness ==
    /\ blob # NoBlob
    /\ root # NoJob
    /\ root.Node.Done
    /\ [source |-> <<2>>, target |-> <<1>>] \in DOMAIN blob.edges
    /\ [source |-> <<1>>, target |-> <<9>>] \in DOMAIN blob.edges
    /\ Len(blob.nodes) = 3

====
